---------------------------- MODULE Spec2Model ----------------------------
(***************************************************************************)
(* A model of the SIEVE IR circuit evaluator (consumers/evaluator.rs) and  *)
(* of the flattening backend (consumers/flattening.rs).                    *)
(*                                                                         *)
(* The evaluator is a recursive interpreter; each handler of the program   *)
(* (ingest_message, get_violations, ...) is one action, and the            *)
(* interpreter itself is a family of recursive operators threading an      *)
(* interpreter state record `s` the way the Rust code threads its `&mut`   *)
(* parameters.                                                             *)
(***************************************************************************)
EXTENDS Integers, Sequences, FiniteSets, TLC

VARIABLES
    values,                      \* Evaluator.values : HashMap<WireId, B::Wire>
    modulus,                     \* Evaluator.modulus
    instance_queue,              \* Evaluator.instance_queue
    witness_queue,               \* Evaluator.witness_queue
    is_boolean,                  \* Evaluator.is_boolean
    known_functions,             \* Evaluator.known_functions
    verified_at_least_one_gate,  \* Evaluator.verified_at_least_one_gate
    found_error,                 \* Evaluator.found_error : Option<String>
    backend,                     \* the ZKBackend driven by the evaluator
    pc,                          \* "running" | "consumed" | "aborted"
    violations,                  \* the value returned by get_violations
    ops,                         \* backend operations issued by the last call
    trace,                       \* interpreter events of the last call
    nmsgs,                       \* number of messages ingested so far
    arg,                         \* inputs of a pure-function / round-trip run
    result                       \* results of a pure-function / round-trip run

vars == <<values, modulus, instance_queue, witness_queue, is_boolean,
          known_functions, verified_at_least_one_gate, found_error, backend,
          pc, violations, ops, trace, nmsgs, arg, result>>

evaluator == <<values, modulus, instance_queue, witness_queue, is_boolean,
               known_functions, verified_at_least_one_gate, found_error>>

-----------------------------------------------------------------------------
(* Option<T> as a sequence of length 0 or 1.                               *)
None == <<>>
Some(x) == <<x>>

(* An empty HashMap, and HashMap operations on functions of finite domain. *)
EmptyMap == [x \in {} |-> 0]
MapRemove(f, k) == [x \in (DOMAIN f) \ {k} |-> f[x]]
MapInsert(f, k, v) == [x \in (DOMAIN f) \cup {k} |-> IF x = k THEN v ELSE f[x]]

Min(a, b) == IF a <= b THEN a ELSE b

-----------------------------------------------------------------------------
(* Field element literals are little-endian byte strings (Value = Vec<u8>).*)

RECURSIVE FromBytesLE(_)
FromBytesLE(bytes) ==
    IF Len(bytes) = 0 THEN 0
    ELSE Head(bytes) + 256 * FromBytesLE(Tail(bytes))

RECURSIVE ToBytesLE(_)
ToBytesLE(n) ==
    IF n < 256 THEN <<n>> ELSE <<n % 256>> \o ToBytesLE(n \div 256)

RECURSIVE BitAnd(_, _)
BitAnd(a, b) ==
    IF a = 0 \/ b = 0 THEN 0
    ELSE (IF a % 2 = 1 /\ b % 2 = 1 THEN 1 ELSE 0)
         + 2 * BitAnd(a \div 2, b \div 2)

RECURSIVE BitXor(_, _)
BitXor(a, b) ==
    IF a = 0 THEN b
    ELSE IF b = 0 THEN a
    ELSE (IF a % 2 # b % 2 THEN 1 ELSE 0) + 2 * BitXor(a \div 2, b \div 2)

-----------------------------------------------------------------------------
(* Gates (the Gate enum as the evaluator matches on it).                   *)

Constant(out, value)         == [k |-> "Constant", out |-> out, value |-> value]
AssertZero(inp)              == [k |-> "AssertZero", inp |-> inp]
Copy(out, inp)               == [k |-> "Copy", out |-> out, inp |-> inp]
Add(out, left, right)        == [k |-> "Add", out |-> out, left |-> left, right |-> right]
Mul(out, left, right)        == [k |-> "Mul", out |-> out, left |-> left, right |-> right]
AddConstant(out, inp, value) == [k |-> "AddConstant", out |-> out, inp |-> inp, value |-> value]
MulConstant(out, inp, value) == [k |-> "MulConstant", out |-> out, inp |-> inp, value |-> value]
And(out, left, right)        == [k |-> "And", out |-> out, left |-> left, right |-> right]
Xor(out, left, right)        == [k |-> "Xor", out |-> out, left |-> left, right |-> right]
Not(out, inp)                == [k |-> "Not", out |-> out, inp |-> inp]
Instance(out)                == [k |-> "Instance", out |-> out]
Witness(out)                 == [k |-> "Witness", out |-> out]
Free(first, last)            == [k |-> "Free", first |-> first, last |-> last]
Call(name, output_wires, input_wires) ==
    [k |-> "Call", name |-> name, output_wires |-> output_wires,
     input_wires |-> input_wires]
AnonCall(output_wires, input_wires, instance_count, witness_count, subcircuit) ==
    [k |-> "AnonCall", output_wires |-> output_wires, input_wires |-> input_wires,
     instance_count |-> instance_count, witness_count |-> witness_count,
     subcircuit |-> subcircuit]
For(iterator_name, start_val, end_val, body) ==
    [k |-> "For", iterator_name |-> iterator_name, start_val |-> start_val,
     end_val |-> end_val, body |-> body]
Switch(condition, output_wires, cases, branches) ==
    [k |-> "Switch", condition |-> condition, output_wires |-> output_wires,
     cases |-> cases, branches |-> branches]

(* ForLoopBody *)
IterExprCall(name, outputs, inputs) ==
    [k |-> "IterExprCall", name |-> name, outputs |-> outputs, inputs |-> inputs]
IterExprAnonCall(outputs, inputs, instance_count, witness_count, subcircuit) ==
    [k |-> "IterExprAnonCall", outputs |-> outputs, inputs |-> inputs,
     instance_count |-> instance_count, witness_count |-> witness_count,
     subcircuit |-> subcircuit]

(* CaseInvoke *)
AbstractGateCall(name, input_wires) ==
    [k |-> "AbstractGateCall", name |-> name, input_wires |-> input_wires]
AbstractAnonCall(input_wires, instance_count, witness_count, subcircuit) ==
    [k |-> "AbstractAnonCall", input_wires |-> input_wires,
     instance_count |-> instance_count, witness_count |-> witness_count,
     subcircuit |-> subcircuit]

(* FunctionDeclaration, keyed by name in known_functions. *)
Function(name, output_count, input_count, instance_count, witness_count, body) ==
    [name |-> name, output_count |-> output_count, input_count |-> input_count,
     instance_count |-> instance_count, witness_count |-> witness_count,
     body |-> body]

FunctionDeclaration(f) ==
    [subcircuit |-> f.body, instance_nbr |-> f.instance_count,
     witness_nbr |-> f.witness_count, output_count |-> f.output_count,
     input_count |-> f.input_count]

(* Wire lists: a sequence of single wires and inclusive ranges.            *)
W(id) == [t |-> "Wire", id |-> id]
WireRange(first, last) == [t |-> "WireRange", first |-> first, last |-> last]

RECURSIVE RangeSeq(_, _)
RangeSeq(first, last) ==
    IF first > last THEN <<>> ELSE <<first>> \o RangeSeq(first + 1, last)

RECURSIVE expand_wirelist(_)
expand_wirelist(wirelist) ==
    IF Len(wirelist) = 0 THEN <<>>
    ELSE LET e == Head(wirelist) IN
         (IF e.t = "Wire" THEN <<e.id>> ELSE RangeSeq(e.first, e.last))
         \o expand_wirelist(Tail(wirelist))

(* Iterator expressions.                                                    *)
IterExprConst(c) == [t |-> "IterExprConst", c |-> c]
IterExprName(n)  == [t |-> "IterExprName", n |-> n]
IterExprAdd(l, r) == [t |-> "IterExprAdd", l |-> l, r |-> r]
IterExprSub(l, r) == [t |-> "IterExprSub", l |-> l, r |-> r]
IterExprMul(l, r) == [t |-> "IterExprMul", l |-> l, r |-> r]
Single(e) == [t |-> "Single", e |-> e]

RECURSIVE evaluate_iterexpr(_, _)
evaluate_iterexpr(e, known_iterators) ==
    CASE e.t = "IterExprConst" -> e.c
      [] e.t = "IterExprName"  -> known_iterators[e.n]
      [] e.t = "IterExprAdd"   -> evaluate_iterexpr(e.l, known_iterators)
                                  + evaluate_iterexpr(e.r, known_iterators)
      [] e.t = "IterExprSub"   -> evaluate_iterexpr(e.l, known_iterators)
                                  - evaluate_iterexpr(e.r, known_iterators)
      [] e.t = "IterExprMul"   -> evaluate_iterexpr(e.l, known_iterators)
                                  * evaluate_iterexpr(e.r, known_iterators)

RECURSIVE evaluate_iterexpr_list(_, _)
evaluate_iterexpr_list(list, known_iterators) ==
    IF Len(list) = 0 THEN <<>>
    ELSE <<evaluate_iterexpr(Head(list).e, known_iterators)>>
         \o evaluate_iterexpr_list(Tail(list), known_iterators)

(* Messages.                                                                *)
Header(field_characteristic, field_degree) ==
    [field_characteristic |-> field_characteristic, field_degree |-> field_degree]
InstanceMsg(header, common_inputs) ==
    [type |-> "Instance", header |-> header, common_inputs |-> common_inputs]
WitnessMsg(header, short_witness) ==
    [type |-> "Witness", header |-> header, short_witness |-> short_witness]
RelationMsg(header, bool, functions, gates) ==
    [type |-> "Relation", header |-> header, bool |-> bool,
     functions |-> functions, gates |-> gates]


-----------------------------------------------------------------------------
(* The interpreter state: what ingest_gate receives by reference (scope,   *)
(* known_iterators, instances, witnesses, backend), the wire `w` returned  *)
(* by the last get or backend call (`w2`: the wire returned by the get     *)
(* before the last one), the Result (`status`, `msg`), and the record of   *)
(* what was done (`ops`: backend calls, `trace`: interpreter events,       *)
(* `enclosing`: for each Switch branch being executed, whether its case    *)
(* literal equals the condition in the field; `depth`: the number of       *)
(* subcircuit scopes entered and not yet left).                            *)
(*   status = "ok"      Ok(..)                                             *)
(*   status = "err"     Err(msg)                                           *)
(*   status = "panic"   the thread panicked (msg is the panic message)     *)
(*   status = "diverge" unbounded recursion (the stack overflows)          *)
(* The ? operator is the test ~IsOk(s) at the head of each step: a step    *)
(* applied to a state that holds an error returns it unchanged.            *)

InterpState(scope, known_iterators, instances, witnesses, be) ==
    [scope |-> scope, known_iterators |-> known_iterators,
     instances |-> instances, witnesses |-> witnesses, backend |-> be,
     w |-> 0, w2 |-> 0, status |-> "ok", msg |-> "", ops |-> <<>>,
     trace |-> <<>>, enclosing |-> <<>>, depth |-> 0]

IsOk(s) == s.status = "ok"
Err(s, msg) == [s EXCEPT !.status = "err", !.msg = msg]
Panic(s, msg) == [s EXCEPT !.status = "panic", !.msg = msg]
Diverge(s) == [s EXCEPT !.status = "diverge", !.msg = "stack overflow"]

(* The number of nested subcircuit scopes the stack has room for. *)
MaxDepth == 6

Event(e, k, id, f) == [e |-> e, k |-> k, id |-> id, f |-> f]
Log(s, ev) == [s EXCEPT !.trace = Append(@, ev)]

(* A backend call that returned Ok(wire). *)
Ret(s, op, be, wire) ==
    [s EXCEPT !.backend = be, !.w = wire, !.ops = Append(@, op)]

-----------------------------------------------------------------------------
(* PlaintextBackend: Wire = FieldElement = BigUint.                        *)

PlaintextBackend == [kind |-> "plain", m |-> 0, b |-> None, modulus |-> 0]

(* A variant of set_field that accepts every degree. *)
Plaintext_set_field_any_degree(s, modulus_bytes, degree, bool) ==
    IF FromBytesLE(modulus_bytes) = 0
    THEN Err(Ret(s, "set_field",
                 [s.backend EXCEPT !.m = FromBytesLE(modulus_bytes)], 0),
             "Modulus cannot be zero.")
    ELSE Ret(s, "set_field", [s.backend EXCEPT !.m = FromBytesLE(modulus_bytes)], 0)

Plaintext_set_field(s, modulus_bytes, degree, bool) ==
    LET be == [s.backend EXCEPT !.m = FromBytesLE(modulus_bytes)]
        s1 == Ret(s, "set_field", be, 0)
    IN  IF be.m = 0 THEN Err(s1, "Modulus cannot be zero.")
        ELSE IF degree # 1 THEN Err(s1, "Field should be of degree 1")
        ELSE s1

Plaintext_one(s) == Ret(s, "one", s.backend, 1)

Plaintext_minus_one(s) ==
    IF s.backend.m = 0
    THEN Err(Ret(s, "minus_one", s.backend, 0),
             "Modulus is not initiated, used 'set_field()' before calling.")
    ELSE Ret(s, "minus_one", s.backend, s.backend.m - 1)

Plaintext_zero(s) == Ret(s, "zero", s.backend, 0)

Plaintext_copy(s, wire) == Ret(s, "copy", s.backend, wire)

Plaintext_constant(s, val) == Ret(s, "constant", s.backend, val)

Plaintext_assert_zero(s, wire) ==
    IF wire = 0 THEN Ret(s, "assert_zero", s.backend, 0)
    ELSE Err(Ret(s, "assert_zero", s.backend, 0), "AssertZero failed")

(* x % &self.m on BigUint panics when m is zero. *)
PlaintextReduce(s, op, x) ==
    IF s.backend.m = 0
    THEN Panic(Ret(s, op, s.backend, 0), "attempt to divide by zero")
    ELSE Ret(s, op, s.backend, x % s.backend.m)

Plaintext_add(s, a, b) == PlaintextReduce(s, "add", a + b)
Plaintext_multiply(s, a, b) == PlaintextReduce(s, "multiply", a * b)
Plaintext_add_constant(s, a, b) == PlaintextReduce(s, "add_constant", a + b)
Plaintext_mul_constant(s, a, b) == PlaintextReduce(s, "mul_constant", a * b)
Plaintext_and(s, a, b) == PlaintextReduce(s, "and", BitAnd(a, b))
Plaintext_xor(s, a, b) == PlaintextReduce(s, "xor", BitXor(a, b))
Plaintext_not(s, a) == Ret(s, "not", s.backend, IF a = 0 THEN 1 ELSE 0)

Plaintext_instance(s, val) ==
    [Plaintext_constant(s, val) EXCEPT !.ops = Append(s.ops, "instance")]

(* val : Option<FieldElement>; None panics. *)
Plaintext_witness(s, val) ==
    IF val = None
    THEN Panic(Ret(s, "witness", s.backend, 0),
               "Missing witness value for PlaintextBackend")
    ELSE [Plaintext_constant(s, val[1]) EXCEPT !.ops = Append(s.ops, "witness")]

-----------------------------------------------------------------------------
(* IRFlattener: Wire = WireId of the output relation.  The GateBuilder and *)
(* the Sink it writes to are collaborators (producers/builder.rs).         *)

(* BuildGate: a gate without its output wire. *)
BuildGate(k, a, b, value) == [k |-> k, a |-> a, b |-> b, value |-> value]

has_output(g) == g.k \notin {"AssertZero", "Free"}

NO_OUTPUT == -1

with_output(g, output) ==
    CASE g.k = "Constant"    -> Constant(output, g.value)
      [] g.k = "AssertZero"  -> AssertZero(g.a)
      [] g.k = "Copy"        -> Copy(output, g.a)
      [] g.k = "Add"         -> Add(output, g.a, g.b)
      [] g.k = "Mul"         -> Mul(output, g.a, g.b)
      [] g.k = "AddConstant" -> AddConstant(output, g.a, g.value)
      [] g.k = "MulConstant" -> MulConstant(output, g.a, g.value)
      [] g.k = "And"         -> And(output, g.a, g.b)
      [] g.k = "Xor"         -> Xor(output, g.a, g.b)
      [] g.k = "Not"         -> Not(output, g.a)
      [] g.k = "Instance"    -> Instance(output)
      [] g.k = "Witness"     -> Witness(output)
      [] g.k = "Free"        -> Free(g.a, g.b)

(* GateBuilder::new(sink, header, gate_mask, feat_mask) *)
GateBuilder_new(header, bool) ==
    [header |-> header, bool |-> bool, next_available_id |-> 0, gates |-> <<>>,
     instance |-> <<>>, witness |-> <<>>]

(* GateBuilder::create_gate: allocate the output identifier, move the value *)
(* of an Instance / Witness gate to the sink, append the gate.              *)
create_gate(builder, g) ==
    LET out_id == IF has_output(g) THEN builder.next_available_id ELSE NO_OUTPUT
        b1 == IF has_output(g)
              THEN [builder EXCEPT !.next_available_id = @ + 1] ELSE builder
        b2 == IF g.k = "Instance" /\ g.value # None
              THEN [b1 EXCEPT !.instance = Append(@, g.value[1])]
              ELSE IF g.k = "Witness" /\ g.value # None
              THEN [b1 EXCEPT !.witness = Append(@, g.value[1])]
              ELSE b1
    IN  [builder |-> [b2 EXCEPT !.gates = Append(@, with_output(g, out_id))],
         out_id |-> out_id]

IRFlattener == [kind |-> "flat", m |-> 0, b |-> None, modulus |-> 0]

(* A variant of set_field that records the modulus of every call. *)
IRFlattener_set_field_latest(s, modulus_bytes, degree, bool) ==
    IF s.backend.b = None
    THEN Ret(s, "set_field",
             [s.backend EXCEPT
                 !.modulus = FromBytesLE(modulus_bytes),
                 !.b = Some(GateBuilder_new(Header(modulus_bytes, degree), bool))],
             0)
    ELSE Ret(s, "set_field",
             [s.backend EXCEPT !.modulus = FromBytesLE(modulus_bytes)], 0)

IRFlattener_set_field(s, modulus_bytes, degree, bool) ==
    IF s.backend.b = None
    THEN Ret(s, "set_field",
             [s.backend EXCEPT
                 !.modulus = FromBytesLE(modulus_bytes),
                 !.b = Some(GateBuilder_new(Header(modulus_bytes, degree), bool))],
             0)
    ELSE Ret(s, "set_field", s.backend, 0)

IRFlattener_one(s) == Ret(s, "one", s.backend, 1)

IRFlattener_minus_one(s) ==
    IF s.backend.modulus = 0
    THEN Err(Ret(s, "minus_one", s.backend, 0),
             "Modulus is not initiated, used 'set_field()' before calling.")
    ELSE Ret(s, "minus_one", s.backend, s.backend.modulus - 1)

IRFlattener_zero(s) == Ret(s, "zero", s.backend, 0)

(* GateBuilder::finish: the messages the builder has written to its sink. *)
finish(builder) ==
    << InstanceMsg(builder.header, builder.instance),
       WitnessMsg(builder.header, builder.witness),
       RelationMsg(builder.header, builder.bool, <<>>, builder.gates) >>

(* IRFlattener::finish: self.b.take().unwrap().finish() *)
IRFlattener_finish(be) == finish(be.b[1])

(* A variant of the flattener's multiply that re-emits a call of a         *)
(* multiplication subcircuit instead of a Mul gate.                        *)
IRFlattener_multiply_as_call(s, a, b) ==
    IF s.backend.b = None
    THEN Panic(Ret(s, "multiply", s.backend, 0),
               "Builder has not been properly initialized.")
    ELSE Ret(s, "multiply",
             [s.backend EXCEPT
                 !.b = Some([s.backend.b[1] EXCEPT
                        !.next_available_id = @ + 1,
                        !.gates = Append(@,
                            AnonCall(<<W(s.backend.b[1].next_available_id)>>,
                                     <<W(a), W(b)>>, 0, 0,
                                     <<Mul(0, 1, 2)>>))])],
             s.backend.b[1].next_available_id)

(* Every gate-emitting operation of the flattener has this shape. *)
IRFlattener_emit(s, op, g) ==
    IF s.backend.b = None
    THEN Panic(Ret(s, op, s.backend, 0), "Builder has not been properly initialized.")
    ELSE LET r == create_gate(s.backend.b[1], g)
         IN  Ret(s, op, [s.backend EXCEPT !.b = Some(r.builder)], r.out_id)

IRFlattener_copy(s, wire) == IRFlattener_emit(s, "copy", BuildGate("Copy", wire, 0, None))
IRFlattener_constant(s, val) ==
    IRFlattener_emit(s, "constant", BuildGate("Constant", 0, 0, ToBytesLE(val)))
(* A variant of assert_zero that returns success without a gate. *)
IRFlattener_assert_zero_silent(s, wire) == Ret(s, "assert_zero", s.backend, 0)

IRFlattener_assert_zero(s, wire) ==
    IRFlattener_emit(s, "assert_zero", BuildGate("AssertZero", wire, 0, None))
IRFlattener_add(s, a, b) == IRFlattener_emit(s, "add", BuildGate("Add", a, b, None))
IRFlattener_multiply(s, a, b) ==
    IRFlattener_emit(s, "multiply", BuildGate("Mul", a, b, None))
IRFlattener_add_constant(s, a, b) ==
    IRFlattener_emit(s, "add_constant", BuildGate("AddConstant", a, 0, ToBytesLE(b)))
IRFlattener_mul_constant(s, a, b) ==
    IRFlattener_emit(s, "mul_constant", BuildGate("MulConstant", a, 0, ToBytesLE(b)))
IRFlattener_and(s, a, b) == IRFlattener_emit(s, "and", BuildGate("And", a, b, None))
IRFlattener_xor(s, a, b) == IRFlattener_emit(s, "xor", BuildGate("Xor", a, b, None))
IRFlattener_not(s, a) == IRFlattener_emit(s, "not", BuildGate("Not", a, 0, None))
IRFlattener_instance(s, val) ==
    IRFlattener_emit(s, "instance", BuildGate("Instance", 0, 0, Some(ToBytesLE(val))))
IRFlattener_witness(s, val) ==
    IRFlattener_emit(s, "witness",
        BuildGate("Witness", 0, 0,
                  IF val = None THEN None ELSE Some(ToBytesLE(val[1]))))

-----------------------------------------------------------------------------
(* VerifierInterpreter: a backend without values.  Every operation        *)
(* succeeds; copy returns the wire it is given, every other operation     *)
(* the wire 0; the field elements are zero, one and minus_one being one.  *)

VerifierInterpreter == [kind |-> "verifier", m |-> 0, b |-> None, modulus |-> 0]

Verifier_ok(s, op, wire) == Ret(s, op, s.backend, wire)

-----------------------------------------------------------------------------
(* The ZKBackend trait: static dispatch on the backend the evaluator is    *)
(* instantiated with.                                                      *)

(* from_bytes_le of the plaintext backend and of the flattener.  The      *)
(* VerifierInterpreter's from_bytes_le is zero on every input: its field  *)
(* elements reach the pools (PushAll) and backend operations that ignore  *)
(* them.                                                                  *)
from_bytes_le(val) == FromBytesLE(val)

set_field(s, modulus_bytes, degree, bool) ==
    IF s.backend.kind = "plain" THEN Plaintext_set_field(s, modulus_bytes, degree, bool)
    ELSE IF s.backend.kind = "verifier" THEN Verifier_ok(s, "set_field", 0)
    ELSE IRFlattener_set_field(s, modulus_bytes, degree, bool)
one(s) ==
    IF s.backend.kind = "plain" THEN Plaintext_one(s)
    ELSE IF s.backend.kind = "verifier" THEN Verifier_ok(s, "one", 1)
    ELSE IRFlattener_one(s)
minus_one(s) ==
    IF s.backend.kind = "plain" THEN Plaintext_minus_one(s)
    ELSE IF s.backend.kind = "verifier" THEN Verifier_ok(s, "minus_one", 1)
    ELSE IRFlattener_minus_one(s)
zero(s) ==
    IF s.backend.kind = "plain" THEN Plaintext_zero(s)
    ELSE IF s.backend.kind = "verifier" THEN Verifier_ok(s, "zero", 0)
    ELSE IRFlattener_zero(s)
copy(s, wire) ==
    IF s.backend.kind = "plain" THEN Plaintext_copy(s, wire)
    ELSE IF s.backend.kind = "verifier" THEN Verifier_ok(s, "copy", wire)
    ELSE IRFlattener_copy(s, wire)
constant(s, val) ==
    IF s.backend.kind = "plain" THEN Plaintext_constant(s, val)
    ELSE IF s.backend.kind = "verifier" THEN Verifier_ok(s, "constant", 0)
    ELSE IRFlattener_constant(s, val)
assert_zero(s, wire) ==
    IF s.backend.kind = "plain" THEN Plaintext_assert_zero(s, wire)
    ELSE IF s.backend.kind = "verifier" THEN Verifier_ok(s, "assert_zero", 0)
    ELSE IRFlattener_assert_zero(s, wire)
add(s, a, b) ==
    IF s.backend.kind = "plain" THEN Plaintext_add(s, a, b)
    ELSE IF s.backend.kind = "verifier" THEN Verifier_ok(s, "add", 0)
    ELSE IRFlattener_add(s, a, b)
multiply(s, a, b) ==
    IF s.backend.kind = "plain" THEN Plaintext_multiply(s, a, b)
    ELSE IF s.backend.kind = "verifier" THEN Verifier_ok(s, "multiply", 0)
    ELSE IRFlattener_multiply(s, a, b)
add_constant(s, a, b) ==
    IF s.backend.kind = "plain" THEN Plaintext_add_constant(s, a, b)
    ELSE IF s.backend.kind = "verifier" THEN Verifier_ok(s, "add_constant", 0)
    ELSE IRFlattener_add_constant(s, a, b)
mul_constant(s, a, b) ==
    IF s.backend.kind = "plain" THEN Plaintext_mul_constant(s, a, b)
    ELSE IF s.backend.kind = "verifier" THEN Verifier_ok(s, "mul_constant", 0)
    ELSE IRFlattener_mul_constant(s, a, b)
and(s, a, b) ==
    IF s.backend.kind = "plain" THEN Plaintext_and(s, a, b)
    ELSE IF s.backend.kind = "verifier" THEN Verifier_ok(s, "and", 0)
    ELSE IRFlattener_and(s, a, b)
xor(s, a, b) ==
    IF s.backend.kind = "plain" THEN Plaintext_xor(s, a, b)
    ELSE IF s.backend.kind = "verifier" THEN Verifier_ok(s, "xor", 0)
    ELSE IRFlattener_xor(s, a, b)
not(s, a) ==
    IF s.backend.kind = "plain" THEN Plaintext_not(s, a)
    ELSE IF s.backend.kind = "verifier" THEN Verifier_ok(s, "not", 0)
    ELSE IRFlattener_not(s, a)
instance(s, val) ==
    IF s.backend.kind = "plain" THEN Plaintext_instance(s, val)
    ELSE IF s.backend.kind = "verifier" THEN Verifier_ok(s, "instance", 0)
    ELSE IRFlattener_instance(s, val)
witness(s, val) ==
    IF s.backend.kind = "plain" THEN Plaintext_witness(s, val)
    ELSE IF s.backend.kind = "verifier" THEN Verifier_ok(s, "witness", 0)
    ELSE IRFlattener_witness(s, val)

(* Field-agnostic helpers. *)
as_mul(s, a, b, bool) == IF bool THEN and(s, a, b) ELSE multiply(s, a, b)
as_add(s, a, b, bool) == IF bool THEN xor(s, a, b) ELSE add(s, a, b)

(* backend.mul_constant(wire, backend.minus_one()?) *)
as_negate_1(s1, wire) == IF ~IsOk(s1) THEN s1 ELSE mul_constant(s1, wire, s1.w)
as_negate(s, wire, bool) ==
    IF bool THEN copy(s, wire) ELSE as_negate_1(minus_one(s), wire)

(* backend.add_constant(wire, backend.one()?) *)
as_add_one_1(s1, wire) == IF ~IsOk(s1) THEN s1 ELSE add_constant(s1, wire, s1.w)
as_add_one(s, wire, bool) ==
    IF bool THEN not(s, wire) ELSE as_add_one_1(one(s), wire)

-----------------------------------------------------------------------------
(* Scope operations.                                                       *)

(* A variant of set that replaces a binding silently. *)
set_overwrite(s, id, wire) ==
    IF ~IsOk(s) THEN s
    ELSE Log([s EXCEPT !.scope = MapInsert(s.scope, id, wire)],
             Event("set", "", id, FALSE))

(* HashMap::insert replaces the value held for `id` before `set` reports   *)
(* the duplicate.                                                          *)
set(s, id, wire) ==
    IF ~IsOk(s) THEN s
    ELSE IF id \in DOMAIN s.scope
    THEN Err(Log([s EXCEPT !.scope = MapInsert(s.scope, id, wire)],
                 Event("set", "", id, TRUE)),
             "Wire_" \o ToString(id) \o " already has a value in this scope.")
    ELSE Log([s EXCEPT !.scope = MapInsert(s.scope, id, wire)],
             Event("set", "", id, FALSE))

(* set(scope, id, x?) where x is the result of the step before *)
SetResult(s, id) == IF ~IsOk(s) THEN s ELSE set(s, id, s.w)

(* get on an explicit scope; the wire is returned in w. *)
get_in(s, scope, id) ==
    IF ~IsOk(s) THEN s
    ELSE IF id \in DOMAIN scope
    THEN [Log(s, Event("get", "", id, TRUE)) EXCEPT !.w = scope[id], !.w2 = s.w]
    ELSE Err(Log(s, Event("get", "", id, FALSE)),
             "No value given for wire_" \o ToString(id))

get(s, id) == IF ~IsOk(s) THEN s ELSE get_in(s, s.scope, id)

remove(s, id) ==
    IF ~IsOk(s) THEN s
    ELSE IF id \in DOMAIN s.scope
    THEN [Log(s, Event("remove", "", id, TRUE)) EXCEPT
              !.w = s.scope[id], !.scope = MapRemove(s.scope, id)]
    ELSE Err(Log(s, Event("remove", "", id, FALSE)),
             "No value given for wire_" \o ToString(id))

set_instance(s, id, value) == SetResult(instance(s, value), id)

(* A variant of set_witness that fails when the pool gave no value. *)
set_witness_required(s, id, value) ==
    IF value = None THEN Err(s, "Not enough witness to consume")
    ELSE SetResult(witness(s, value), id)

set_witness(s, id, value) == SetResult(witness(s, value), id)

(* backend.copy(x?) where x is the result of the step before *)
CopyResult(s) == IF ~IsOk(s) THEN s ELSE copy(s, s.w)

-----------------------------------------------------------------------------
(* Modular exponentiation by repeated squaring.  exponent.is_one() is the  *)
(* only base case: with exponent zero the function calls itself with       *)
(* exponent zero again, without end.                                       *)

(* A variant of exp that forgets the exponent: base^1. *)
exp_first_power(s, base, exponent, bool) == copy(s, base)

exp_2(s2, base, bool) == IF ~IsOk(s2) THEN s2 ELSE as_mul(s2, s2.w, base, bool)

exp_1(s1, base, exponent, bool) ==
    IF ~IsOk(s1) THEN s1
    ELSE IF exponent % 2 = 1
    THEN exp_2(as_mul(s1, s1.w, s1.w, bool), base, bool)
    ELSE as_mul(s1, s1.w, s1.w, bool)

(* A variant of exp that squares at every step and never multiplies by the *)
(* base on an odd exponent.                                                *)
RECURSIVE exp_squares_only(_, _, _, _)
exp_squares_only(s, base, exponent, bool) ==
    IF ~IsOk(s) THEN s
    ELSE IF exponent = 1 THEN copy(s, base)
    ELSE IF exponent = 0 THEN Diverge(s)
    ELSE exp_1(exp_squares_only(s, base, exponent \div 2, bool), base, 0, bool)

RECURSIVE exp(_, _, _, _)
exp(s, base, exponent, bool) ==
    IF ~IsOk(s) THEN s
    ELSE IF exponent = 1 THEN copy(s, base)
    ELSE IF exponent = 0 THEN Diverge(s)
    ELSE exp_1(exp(s, base, exponent \div 2, bool), base, exponent, bool)

(* 1 - (case - condition)^(p-1).  `modulus - 1` on BigUint panics when the *)
(* modulus is zero.                                                        *)
compute_weight_5(s5, bool) == IF ~IsOk(s5) THEN s5 ELSE as_add_one(s5, s5.w, bool)

compute_weight_4(s4, bool) ==
    IF ~IsOk(s4) THEN s4 ELSE compute_weight_5(as_negate(s4, s4.w, bool), bool)

compute_weight_3(s3, exponent, bool) ==
    IF ~IsOk(s3) THEN s3 ELSE compute_weight_4(exp(s3, s3.w, exponent, bool), bool)

compute_weight_2(s2, case_wire, exponent, bool) ==
    IF ~IsOk(s2) THEN s2
    ELSE compute_weight_3(as_add(s2, case_wire, s2.w, bool), exponent, bool)

compute_weight_1(s1, condition, p, bool) ==
    IF ~IsOk(s1) THEN s1
    ELSE IF p = 0 THEN Panic(s1, "attempt to subtract with overflow")
    ELSE compute_weight_2(as_negate(s1, condition, bool), s1.w, p - 1, bool)

compute_weight(s, case, condition, p, bool) ==
    compute_weight_1(constant(s, from_bytes_le(case)), condition, p, bool)

-----------------------------------------------------------------------------
(* The interpreter.  ctx holds the parameters ingest_gate only reads:      *)
(* known_functions, modulus and is_boolean; weight is Option<&B::Wire>.    *)

Context(functions, p, bool) ==
    [known_functions |-> functions, modulus |-> p, is_boolean |-> bool]

WrongOutputs(name, expected, got) ==
    "Wrong number of output variables in call to function " \o name
    \o " (Expected " \o ToString(expected) \o " / Got " \o ToString(got) \o ")."

WrongInputs(name, expected, got) ==
    "Wrong number of input variables in call to function " \o name
    \o " (Expected " \o ToString(expected) \o " / Got " \o ToString(got) \o ")."

(* The wire a gate is named after in the trace. *)
GateWire(gate) ==
    IF gate.k \in {"Constant", "Copy", "Add", "Mul", "AddConstant", "MulConstant",
                   "And", "Xor", "Not", "Instance", "Witness"} THEN gate.out
    ELSE IF gate.k = "AssertZero" THEN gate.inp
    ELSE IF gate.k = "Free" THEN gate.first
    ELSE IF gate.k = "Switch" THEN gate.condition
    ELSE -1

(* The wires a gate binds in the scope it is executed in (those of a For   *)
(* depend on the iteration).                                               *)
RangeOf(seq) == {seq[i] : i \in 1..Len(seq)}

GateOutputs(gate) ==
    IF gate.k \in {"Constant", "Copy", "Add", "Mul", "AddConstant", "MulConstant",
                   "And", "Xor", "Not", "Instance", "Witness"} THEN {gate.out}
    ELSE IF gate.k \in {"Call", "AnonCall", "Switch"}
    THEN RangeOf(expand_wirelist(gate.output_wires))
    ELSE {}

(* ingest_subcircuit, first loop: copy the inputs into the new scope       *)
(* (s.scope), reading them in the caller scope.                            *)
RECURSIVE CopyInputs(_, _, _, _, _)
CopyInputs(s, caller, input_list, idx, output_len) ==
    IF ~IsOk(s) \/ idx > Len(input_list) THEN s
    ELSE CopyInputs(
            SetResult(CopyResult(get_in(s, caller, input_list[idx])),
                      (idx - 1) + output_len),
            caller, input_list, idx + 1, output_len)

(* ingest_subcircuit, last loop: copy the outputs found in new_scope into  *)
(* the caller scope (s.scope).                                             *)
RECURSIVE CopyOutputs(_, _, _, _)
CopyOutputs(s, new_scope, output_list, idx) ==
    IF ~IsOk(s) \/ idx > Len(output_list) THEN s
    ELSE CopyOutputs(
            SetResult(CopyResult(get_in(s, new_scope, idx - 1)), output_list[idx]),
            new_scope, output_list, idx + 1)

RECURSIVE ingest_gate(_, _, _, _)
RECURSIVE ingest_gates(_, _, _, _, _)
RECURSIVE ingest_subcircuit(_, _, _, _, _, _)
RECURSIVE ingest_for(_, _, _, _, _)
RECURSIVE ingest_switch(_, _, _, _)

(* `for gate in subcircuit { Self::ingest_gate(...)?; }` *)
ingest_gates(gates, idx, s, ctx, weight) ==
    IF idx > Len(gates) \/ ~IsOk(s) THEN s
    ELSE ingest_gates(gates, idx + 1, ingest_gate(gates[idx], s, ctx, weight),
                      ctx, weight)

(* the body of the subcircuit, run in the new scope *)
ingest_subcircuit_1(s1, subcircuit, output_list, input_list, caller, ctx, weight) ==
    IF ~IsOk(s1) THEN s1
    ELSE ingest_gates(subcircuit, 1,
                      Log(s1, Event("enter", "", Len(output_list),
                                    [scope |-> s1.scope, caller |-> caller,
                                     input_list |-> input_list,
                                     output_list |-> output_list,
                                     depth |-> s1.depth,
                                     known_iterators |-> s1.known_iterators])),
                      ctx, weight)

(* A variant of the return to the caller where the bindings of the new    *)
(* scope stay visible in the caller scope.                                *)
ingest_subcircuit_2_leaking(s2, caller, output_list) ==
    IF ~IsOk(s2) THEN [s2 EXCEPT !.scope = caller, !.depth = @ - 1]
    ELSE CopyOutputs([s2 EXCEPT
                         !.scope = [x \in DOMAIN caller \cup DOMAIN s2.scope |->
                                       IF x \in DOMAIN caller THEN caller[x]
                                       ELSE s2.scope[x]],
                         !.depth = @ - 1],
                     s2.scope, output_list, 1)

(* back in the caller scope: the outputs are copied out of the new scope *)
ingest_subcircuit_2(s2, caller, output_list) ==
    IF ~IsOk(s2) THEN [s2 EXCEPT !.scope = caller, !.depth = @ - 1]
    ELSE CopyOutputs([s2 EXCEPT !.scope = caller, !.depth = @ - 1], s2.scope,
                     output_list, 1)

(* A variant of ingest_subcircuit whose new scope starts as a copy of the  *)
(* caller's scope.                                                         *)
ingest_subcircuit_shared(subcircuit, s, output_list, input_list, ctx, weight) ==
    ingest_subcircuit_2(
        ingest_subcircuit_1(
            CopyInputs([s EXCEPT !.scope =
                            [id \in DOMAIN s.scope \ 0..(Len(output_list)
                                    + Len(input_list) - 1) |-> s.scope[id]],
                        !.depth = @ + 1],
                       s.scope, input_list, 1, Len(output_list)),
            subcircuit, output_list, input_list, s.scope, ctx, weight),
        s.scope, output_list)

(* s.scope is the caller's scope; s.known_iterators, s.instances and       *)
(* s.witnesses are the ones the caller hands over.                         *)
(* Each scope entered is a frame of ingest_subcircuit and of ingest_gate on *)
(* the native stack, which is finite: the model gives it room for MaxDepth *)
(* nested scopes, and one more overflows it.                               *)
ingest_subcircuit(subcircuit, s, output_list, input_list, ctx, weight) ==
    IF IsOk(s) /\ s.depth >= MaxDepth THEN Diverge(s)
    ELSE ingest_subcircuit_2(
            ingest_subcircuit_1(
                CopyInputs([s EXCEPT !.scope = EmptyMap, !.depth = @ + 1], s.scope,
                           input_list, 1, Len(output_list)),
                subcircuit, output_list, input_list, s.scope, ctx, weight),
            s.scope, output_list)

(* A Free that removes its first identifier only. *)
FreeRange_first_only(s, current, last_value) == remove(s, current)

(* Free: `for current in *first..=last_value { remove(scope, current)?; }` *)
RECURSIVE FreeRange(_, _, _)
FreeRange(s, current, last_value) ==
    IF ~IsOk(s) \/ current > last_value THEN s
    ELSE FreeRange(remove(s, current), current + 1, last_value)

(* A variant of the named invocation without the arity checks. *)
CallNamed_unchecked(s, name, expanded_output, expanded_input, ctx, weight) ==
    [ingest_subcircuit(ctx.known_functions[name].subcircuit,
                       [s EXCEPT !.known_iterators = EmptyMap],
                       expanded_output, expanded_input, ctx, weight)
       EXCEPT !.known_iterators = s.known_iterators]

(* A variant of the named invocation that hands the iterators over. *)
CallNamed_with_iterators(s, name, expanded_output, expanded_input, ctx, weight) ==
    IF Len(expanded_output) # ctx.known_functions[name].output_count
    THEN Err(s, WrongOutputs(name, ctx.known_functions[name].output_count,
                             Len(expanded_output)))
    ELSE IF Len(expanded_input) # ctx.known_functions[name].input_count
    THEN Err(s, WrongInputs(name, ctx.known_functions[name].input_count,
                            Len(expanded_input)))
    ELSE ingest_subcircuit(ctx.known_functions[name].subcircuit, s,
                           expanded_output, expanded_input, ctx, weight)

(* A named invocation: arity checks, then the body with no iterators. *)
CallNamed(s, name, expanded_output, expanded_input, ctx, weight) ==
    IF Len(expanded_output) # ctx.known_functions[name].output_count
    THEN Err(s, WrongOutputs(name, ctx.known_functions[name].output_count,
                             Len(expanded_output)))
    ELSE IF Len(expanded_input) # ctx.known_functions[name].input_count
    THEN Err(s, WrongInputs(name, ctx.known_functions[name].input_count,
                            Len(expanded_input)))
    ELSE [ingest_subcircuit(ctx.known_functions[name].subcircuit,
                            [s EXCEPT !.known_iterators = EmptyMap],
                            expanded_output, expanded_input, ctx, weight)
            EXCEPT !.known_iterators = s.known_iterators]

(* The two-operand gates, applied to the wires of the last two gets. *)
Binary(s, k) ==
    IF ~IsOk(s) THEN s
    ELSE CASE k = "Add" -> add(s, s.w2, s.w)
           [] k = "Mul" -> multiply(s, s.w2, s.w)
           [] k = "And" -> and(s, s.w2, s.w)
           [] k = "Xor" -> xor(s, s.w2, s.w)

(* The gates of one wire and one constant, applied to the last get. *)
WithConstant(s, k, value) ==
    IF ~IsOk(s) THEN s
    ELSE CASE k = "AddConstant" -> add_constant(s, s.w, from_bytes_le(value))
           [] k = "MulConstant" -> mul_constant(s, s.w, from_bytes_le(value))

NotResult(s) == IF ~IsOk(s) THEN s ELSE not(s, s.w)

(* A variant of the AssertZero arm that goes on after a failed assertion. *)
AssertZero_3_continue(s4, should_be_zero, inp_wire, inp, weight) ==
    IF s4.status = "panic" THEN s4
    ELSE Log([s4 EXCEPT !.status = "ok", !.msg = ""],
             Event("assert", "AssertZero", inp,
                   [wire |-> inp_wire, should_be_zero |-> should_be_zero,
                    weight |-> weight, enclosing |-> s4.enclosing,
                    is_err |-> s4.status = "err"]))

(* AssertZero: the Err of assert_zero is replaced by the evaluator's own. *)
AssertZero_3(s4, should_be_zero, inp_wire, inp, weight) ==
    IF s4.status = "panic" THEN s4
    ELSE IF s4.status = "err"
    THEN Err(Log([s4 EXCEPT !.status = "ok", !.msg = ""],
                 Event("assert", "AssertZero", inp,
                       [wire |-> inp_wire, should_be_zero |-> should_be_zero,
                        weight |-> weight, enclosing |-> s4.enclosing,
                        is_err |-> TRUE])),
             "Wire_" \o ToString(inp)
                 \o " (may be weighted) should be 0, while it is not")
    ELSE Log(s4, Event("assert", "AssertZero", inp,
                       [wire |-> inp_wire, should_be_zero |-> should_be_zero,
                        weight |-> weight, enclosing |-> s4.enclosing,
                        is_err |-> FALSE]))

AssertZero_2(s3, inp_wire, inp, weight) ==
    IF ~IsOk(s3) THEN s3
    ELSE AssertZero_3(assert_zero(s3, s3.w), s3.w, inp_wire, inp, weight)

AssertZero_1(s1, inp, weight, bool) ==
    IF ~IsOk(s1) THEN s1
    ELSE AssertZero_2(IF weight # None
                      THEN as_mul(s1, weight[1], s1.w, bool)
                      ELSE copy(s1, s1.w),
                      s1.w, inp, weight)

ingest_gate_(gate, s, ctx, weight) ==
    CASE gate.k = "Constant" ->
            SetResult(constant(s, from_bytes_le(gate.value)), gate.out)
      [] gate.k = "AssertZero" ->
            AssertZero_1(get(s, gate.inp), gate.inp, weight, ctx.is_boolean)
      [] gate.k = "Copy" ->
            SetResult(CopyResult(get(s, gate.inp)), gate.out)
      [] gate.k \in {"Add", "Mul", "And", "Xor"} ->
            SetResult(Binary(get(get(s, gate.left), gate.right), gate.k), gate.out)
      [] gate.k \in {"AddConstant", "MulConstant"} ->
            SetResult(WithConstant(get(s, gate.inp), gate.k, gate.value), gate.out)
      [] gate.k = "Not" ->
            SetResult(NotResult(get(s, gate.inp)), gate.out)
      [] gate.k = "Instance" ->
            IF Len(s.instances) = 0
            THEN Err(s, "Not enough instance to consume")
            ELSE set_instance([s EXCEPT !.instances = Tail(@)], gate.out,
                              Head(s.instances))
      [] gate.k = "Witness" ->
            IF Len(s.witnesses) = 0
            THEN set_witness(s, gate.out, None)
            ELSE set_witness([s EXCEPT !.witnesses = Tail(@)], gate.out,
                             Some(Head(s.witnesses)))
      [] gate.k = "Free" ->
            FreeRange(s, gate.first,
                      IF gate.last = None THEN gate.first ELSE gate.last[1])
      [] gate.k = "Call" ->
            IF gate.name \notin DOMAIN ctx.known_functions
            THEN Err(s, "Unknown function")
            ELSE CallNamed(s, gate.name, expand_wirelist(gate.output_wires),
                           expand_wirelist(gate.input_wires), ctx, weight)
      [] gate.k = "AnonCall" ->
            ingest_subcircuit(gate.subcircuit, s,
                              expand_wirelist(gate.output_wires),
                              expand_wirelist(gate.input_wires), ctx, weight)
      [] gate.k = "For" -> ingest_for(gate, gate.start_val, s, ctx, weight)
      [] gate.k = "Switch" -> ingest_switch(gate, s, ctx, weight)

(* What a gate that returned Ok(()) left: the scope it ran in, the pools  *)
(* and the iterator environment.                                          *)
ingest_gate_1(r, gate, depth) ==
    IF ~IsOk(r) THEN r
    ELSE Log(r, Event("done", gate.k, GateWire(gate),
                      [scope |-> r.scope, depth |-> depth,
                       instances |-> r.instances, witnesses |-> r.witnesses,
                       known_iterators |-> r.known_iterators]))

ingest_gate(gate, s0, ctx, weight) ==
    ingest_gate_1(
        ingest_gate_(gate,
                     Log(s0, Event("gate", gate.k, GateWire(gate),
                                   [weight |-> weight, scope |-> s0.scope,
                                    depth |-> s0.depth, outs |-> GateOutputs(gate),
                                    gate |-> gate, ops |-> Len(s0.ops),
                                    instances |-> s0.instances,
                                    witnesses |-> s0.witnesses,
                                    known_iterators |-> s0.known_iterators])),
                     ctx, weight),
        gate, s0.depth)

(* For: the loop is unrolled; the iterator is inserted before each         *)
(* iteration and removed once after the last one.                          *)
ingest_for_body(body, s1, ctx, weight) ==
    IF body.k = "IterExprCall"
    THEN IF body.name \notin DOMAIN ctx.known_functions
         THEN Err(s1, "Unknown function")
         ELSE CallNamed(s1, body.name,
                        evaluate_iterexpr_list(body.outputs, s1.known_iterators),
                        evaluate_iterexpr_list(body.inputs, s1.known_iterators),
                        ctx, weight)
    ELSE ingest_subcircuit(body.subcircuit, s1,
                           evaluate_iterexpr_list(body.outputs, s1.known_iterators),
                           evaluate_iterexpr_list(body.inputs, s1.known_iterators),
                           ctx, weight)

(* A variant of the loop that stops before end_val. *)
RECURSIVE ingest_for_exclusive(_, _, _, _, _)
ingest_for_exclusive(gate, i, s, ctx, weight) ==
    IF ~IsOk(s) THEN s
    ELSE IF i >= gate.end_val
    THEN [s EXCEPT !.known_iterators = MapRemove(@, gate.iterator_name)]
    ELSE ingest_for_exclusive(gate, i + 1,
            ingest_for_body(gate.body,
                Log([s EXCEPT !.known_iterators = MapInsert(@, gate.iterator_name, i)],
                    Event("iter", gate.iterator_name, i, DOMAIN s.known_iterators)),
                ctx, weight),
            ctx, weight)

ingest_for(gate, i, s, ctx, weight) ==
    IF ~IsOk(s) THEN s
    ELSE IF i > gate.end_val
    THEN [s EXCEPT !.known_iterators = MapRemove(@, gate.iterator_name)]
    ELSE ingest_for(gate, i + 1,
            ingest_for_body(gate.body,
                Log([s EXCEPT !.known_iterators = MapInsert(@, gate.iterator_name, i)],
                    Event("iter", gate.iterator_name, i, DOMAIN s.known_iterators)),
                ctx, weight),
            ctx, weight)

(* Switch. *)
BranchCounts(branch, known) ==
    IF branch.k = "AbstractGateCall"
    THEN <<known[branch.name].instance_nbr, known[branch.name].witness_nbr>>
    ELSE <<branch.instance_count, branch.witness_count>>

MaxOf(S) == CHOOSE x \in S \cup {0} : \A y \in S \cup {0} : y <= x

(* for wire in expanded_input: branch_scope.insert(wire, copy(get(wire)?)?) *)
(* The branch scope built so far is returned in w.                          *)
RECURSIVE BranchInputs(_, _, _, _)
BranchInputs_1(s2, expanded_input, idx, branch_scope) ==
    IF ~IsOk(s2) THEN s2
    ELSE BranchInputs(s2, expanded_input, idx + 1,
                      MapInsert(branch_scope, expanded_input[idx], s2.w))

BranchInputs(s, expanded_input, idx, branch_scope) ==
    IF ~IsOk(s) THEN s
    ELSE IF idx > Len(expanded_input) THEN [s EXCEPT !.w = branch_scope]
    ELSE BranchInputs_1(CopyResult(get(s, expanded_input[idx])),
                        expanded_input, idx, branch_scope)

(* Whether a case literal and the condition are the same field element. *)
CaseMatches(case, condition, p) ==
    IF p = 0 THEN from_bytes_le(case) = condition
    ELSE from_bytes_le(case) % p = condition % p

(* The checks of a named branch. *)
BranchCheck(s, branch, expanded_output, ctx) ==
    IF branch.k # "AbstractGateCall" THEN s
    ELSE IF branch.name \notin DOMAIN ctx.known_functions
    THEN Err(s, "Unknown function: " \o branch.name)
    ELSE IF Len(expanded_output) # ctx.known_functions[branch.name].output_count
    THEN Err(s, WrongOutputs(branch.name,
                             ctx.known_functions[branch.name].output_count,
                             Len(expanded_output)))
    ELSE IF Len(expand_wirelist(branch.input_wires))
               # ctx.known_functions[branch.name].input_count
    THEN Err(s, WrongInputs(branch.name,
                            ctx.known_functions[branch.name].input_count,
                            Len(expand_wirelist(branch.input_wires))))
    ELSE s

(* After the branch: the caller's scope, pools and iterators are the ones  *)
(* of before; the branch scope is returned in w, its weight in w2.         *)
SwitchBranch_3(r, s2, weighted_branch_weight, named) ==
    [r EXCEPT !.w = r.scope,
              !.w2 = weighted_branch_weight,
              !.scope = s2.scope,
              !.known_iterators = IF named THEN s2.known_iterators ELSE @,
              !.instances = s2.instances,
              !.witnesses = s2.witnesses,
              !.enclosing = s2.enclosing]

(* The branch body, on clones of the reserved pools; s2.w is branch_scope. *)
SwitchBranch_2(s2, branch, loc, ctx, weighted_branch_weight, taken) ==
    IF ~IsOk(s2) THEN s2
    ELSE SwitchBranch_3(
            ingest_subcircuit(
                IF branch.k = "AbstractGateCall"
                THEN ctx.known_functions[branch.name].subcircuit
                ELSE branch.subcircuit,
                [s2 EXCEPT !.scope = s2.w,
                           !.known_iterators =
                               IF branch.k = "AbstractGateCall" THEN EmptyMap ELSE @,
                           !.instances = loc.new_instances,
                           !.witnesses = loc.new_witnesses,
                           !.enclosing = Append(@, taken)],
                loc.expanded_output, expand_wirelist(branch.input_wires), ctx,
                Some(weighted_branch_weight)),
            s2, weighted_branch_weight, branch.k = "AbstractGateCall")

(* One branch; s.w is weighted_branch_weight.  loc holds the locals of the *)
(* Switch arm.                                                             *)
SwitchBranch(s, branch, loc, ctx, taken) ==
    IF ~IsOk(s) THEN s
    ELSE SwitchBranch_2(
            BranchInputs(BranchCheck(s, branch, loc.expanded_output, ctx),
                         expand_wirelist(branch.input_wires), 1, EmptyMap),
            branch, loc, ctx, s.w, taken)

(* branch_weight: compute_weight on the wire of the condition *)
BranchWeight_1(s1, case, ctx) ==
    IF ~IsOk(s1) THEN s1
    ELSE compute_weight(s1, case, s1.w, ctx.modulus, ctx.is_boolean)

(* A variant of weighted_branch_weight that leaves out the outer weight. *)
BranchWeight_2_own(s2, weight, bool) == s2

(* weighted_branch_weight *)
BranchWeight_2(s2, weight, bool) ==
    IF ~IsOk(s2) THEN s2
    ELSE IF weight # None THEN as_mul(s2, weight[1], s2.w, bool)
    ELSE s2

(* `for (case, branch) in cases.iter().zip(branches.iter())`; returns the  *)
(* state and the vectors `weights` and `branches_scope`.                   *)
RECURSIVE SwitchBranches(_, _, _, _, _, _)
SwitchBranches_1(gate, idx, s3, loc, ctx, weight) ==
    SwitchBranches(gate, idx + 1, s3,
        IF IsOk(s3)
        THEN [loc EXCEPT !.weights = Append(@, s3.w2),
                         !.branches_scope = Append(@, s3.w)]
        ELSE loc,
        ctx, weight)

SwitchBranches(gate, idx, s, loc, ctx, weight) ==
    IF idx > Min(Len(gate.cases), Len(gate.branches)) \/ ~IsOk(s)
    THEN [s |-> s, loc |-> loc]
    ELSE SwitchBranches_1(gate, idx,
            SwitchBranch(
                BranchWeight_2(
                    BranchWeight_1(get(s, gate.condition), gate.cases[idx], ctx),
                    weight, ctx.is_boolean),
                gate.branches[idx], loc, ctx,
                gate.condition \in DOMAIN s.scope
                    /\ CaseMatches(gate.cases[idx], s.scope[gate.condition],
                                   ctx.modulus)),
            loc, ctx, weight)

(* The fold computing one output wire: accu + branch_output * weight.      *)
(* (No step of the fold can fail once the branches have succeeded.)        *)
RECURSIVE WeightedSum(_, _, _, _, _, _)
WeightedSum_3(s3, loc, output_wire, j, bool) ==
    IF ~IsOk(s3) THEN s3
    ELSE WeightedSum(s3, loc, output_wire, j + 1, s3.w, bool)

WeightedSum_2(s2, loc, output_wire, j, accu, bool) ==
    IF ~IsOk(s2) THEN s2
    ELSE WeightedSum_3(as_add(s2, accu, s2.w, bool), loc, output_wire, j, bool)

(* A variant of the fold that adds the branch outputs without weights. *)
WeightedSum_1_unweighted(s1, branch_weight, bool) ==
    IF ~IsOk(s1) THEN s1 ELSE copy(s1, s1.w)

WeightedSum_1(s1, branch_weight, bool) ==
    IF ~IsOk(s1) THEN s1 ELSE as_mul(s1, s1.w, branch_weight, bool)

WeightedSum(s, loc, output_wire, j, accu, bool) ==
    IF ~IsOk(s) THEN s
    ELSE IF j > Len(loc.weights) THEN [s EXCEPT !.w = accu]
    ELSE WeightedSum_2(
            WeightedSum_1(get_in(s, loc.branches_scope[j], output_wire),
                          loc.weights[j], bool),
            loc, output_wire, j, accu, bool)

(* backend.constant(backend.zero()?) *)
ConstantResult(s) == IF ~IsOk(s) THEN s ELSE constant(s, s.w)

CombineOutputs_1(s2, loc, idx, bool) ==
    IF ~IsOk(s2) THEN s2
    ELSE WeightedSum(s2, loc, loc.expanded_output[idx], 1, s2.w, bool)

RECURSIVE CombineOutputs(_, _, _, _)
CombineOutputs(s, loc, idx, bool) ==
    IF ~IsOk(s) \/ idx > Len(loc.expanded_output) THEN s
    ELSE CombineOutputs(
            SetResult(CombineOutputs_1(ConstantResult(zero(s)), loc, idx, bool),
                      loc.expanded_output[idx]),
            loc, idx + 1, bool)

ingest_switch_2(s2, r, gate, s, weight) ==
    IF ~IsOk(s2) THEN s2
    ELSE Log(s2, Event("switch", "", gate.condition,
                       [outer |-> weight, enclosing |-> s.enclosing,
                        condition |-> IF gate.condition \in DOMAIN s.scope
                                     THEN Some(s.scope[gate.condition]) ELSE None,
                        cases |-> [i \in 1..Len(r.loc.weights) |->
                                      from_bytes_le(gate.cases[i])],
                        weights |-> r.loc.weights,
                        branches_scope |-> r.loc.branches_scope,
                        expanded_output |-> r.loc.expanded_output,
                        scope |-> s2.scope]))

ingest_switch_1(r, gate, s, ctx, weight) ==
    ingest_switch_2(CombineOutputs(r.s, r.loc, 1, ctx.is_boolean), r, gate, s, weight)

(* A variant of the pools of a Switch where the branches are handed the   *)
(* whole pool.                                                            *)
Reserved_whole_pool(pool, branches, known, k) == pool

(* A variant of the pools of a Switch where a pool shorter than the       *)
(* largest declared count hands the branches nothing.                    *)
Reserved_all_or_nothing(pool, branches, known, k) ==
    IF Len(pool) < MaxOf({BranchCounts(branches[i], known)[k] : i \in 1..Len(branches)})
    THEN <<>>
    ELSE SubSeq(pool, 1,
                MaxOf({BranchCounts(branches[i], known)[k] : i \in 1..Len(branches)}))

(* The pools of a Switch: the first min(len, max count) values of each     *)
(* pool are set aside for the branches, the rest stays with the caller.    *)
Reserved(pool, branches, known, k) ==
    SubSeq(pool, 1,
           Min(Len(pool),
               MaxOf({BranchCounts(branches[i], known)[k] : i \in 1..Len(branches)})))

(* A variant of the pools of a Switch where the caller keeps everything. *)
Remaining_whole_pool(pool, branches, known, k) == pool

Remaining(pool, branches, known, k) ==
    SubSeq(pool,
           Min(Len(pool),
               MaxOf({BranchCounts(branches[i], known)[k] : i \in 1..Len(branches)}))
             + 1,
           Len(pool))

ingest_switch(gate, s, ctx, weight) ==
    IF \E i \in 1..Len(gate.branches) :
          /\ gate.branches[i].k = "AbstractGateCall"
          /\ gate.branches[i].name \notin DOMAIN ctx.known_functions
    THEN Err(s, "Unknown function")
    ELSE ingest_switch_1(
            SwitchBranches(gate, 1,
                [s EXCEPT
                    !.instances = Remaining(@, gate.branches, ctx.known_functions, 1),
                    !.witnesses = Remaining(@, gate.branches, ctx.known_functions, 2)],
                [new_instances |->
                     Reserved(s.instances, gate.branches, ctx.known_functions, 1),
                 new_witnesses |->
                     Reserved(s.witnesses, gate.branches, ctx.known_functions, 2),
                 expanded_output |-> expand_wirelist(gate.output_wires),
                 weights |-> <<>>, branches_scope |-> <<>>],
                ctx, weight),
            gate, s, ctx, weight)

-----------------------------------------------------------------------------
(* The Evaluator.                                                          *)

Evaluator_default ==
    [values |-> EmptyMap, modulus |-> 0, instance_queue |-> <<>>,
     witness_queue |-> <<>>, is_boolean |-> FALSE, known_functions |-> EmptyMap,
     verified_at_least_one_gate |-> FALSE, found_error |-> None]

(* The result of a call on the evaluator: the evaluator and backend it     *)
(* leaves, its Result, and what it did.                                    *)
Outcome(ev, s) ==
    [ev |-> ev, backend |-> s.backend, status |-> s.status, msg |-> s.msg,
     ops |-> s.ops, trace |-> s.trace]

ingest_header(ev, header) ==
    [ev EXCEPT !.modulus = FromBytesLE(header.field_characteristic)]

(* `self.instance_queue.push_back(B::from_bytes_le(value)?)` *)
RECURSIVE PushAll(_, _, _)
PushAll(queue, vals, be) ==
    IF Len(vals) = 0 THEN queue
    ELSE PushAll(Append(queue, IF be.kind = "verifier" THEN 0
                               ELSE from_bytes_le(Head(vals))),
                 Tail(vals), be)

(* A variant of ingest_instance that keeps the values of the latest       *)
(* Instance message only.                                                 *)
ingest_instance_latest(ev, be, inst) ==
    Outcome([ingest_header(ev, inst.header) EXCEPT
                !.instance_queue = PushAll(<<>>, inst.common_inputs, be)],
            InterpState(EmptyMap, EmptyMap, <<>>, <<>>, be))

ingest_instance(ev, be, inst) ==
    Outcome([ingest_header(ev, inst.header) EXCEPT
                !.instance_queue = PushAll(@, inst.common_inputs, be)],
            InterpState(EmptyMap, EmptyMap, <<>>, <<>>, be))

ingest_witness(ev, be, wit) ==
    Outcome([ingest_header(ev, wit.header) EXCEPT
                !.witness_queue = PushAll(@, wit.short_witness, be)],
            InterpState(EmptyMap, EmptyMap, <<>>, <<>>, be))

RECURSIVE InsertFunctions(_, _)
InsertFunctions(known, functions) ==
    IF Len(functions) = 0 THEN known
    ELSE InsertFunctions(
            MapInsert(known, Head(functions).name, FunctionDeclaration(Head(functions))),
            Tail(functions))

(* the scope and the pools the gates leave are the evaluator's *)
ingest_relation_4(ev2, s1) ==
    Outcome([ev2 EXCEPT !.values = s1.scope,
                        !.instance_queue = s1.instances,
                        !.witness_queue = s1.witnesses],
            s1)

(* `for gate in &relation.gates { Self::ingest_gate(...)?; }` *)
ingest_relation_3(ev2, s0, relation) ==
    ingest_relation_4(ev2,
        ingest_gates(relation.gates, 1, s0,
                     Context(ev2.known_functions, ev2.modulus, ev2.is_boolean),
                     None))

(* A variant of ingest_relation whose function table holds the functions *)
(* of the relation being ingested only.                                  *)
ingest_relation_2_own_functions(ev1, s0, relation) ==
    IF ~IsOk(s0) THEN Outcome(ev1, s0)
    ELSE ingest_relation_3(
            [ev1 EXCEPT
                !.verified_at_least_one_gate =
                    IF Len(relation.gates) > 0 THEN TRUE ELSE @,
                !.known_functions = InsertFunctions(EmptyMap, relation.functions)],
            s0, relation)

(* A variant of ingest_relation whose flag tells whether the relation  *)
(* being ingested has a gate, whatever earlier relations had.          *)
ingest_relation_2_last_relation(ev1, s0, relation) ==
    IF ~IsOk(s0) THEN Outcome(ev1, s0)
    ELSE ingest_relation_3(
            [ev1 EXCEPT
                !.verified_at_least_one_gate = Len(relation.gates) > 0,
                !.known_functions = InsertFunctions(@, relation.functions)],
            s0, relation)

(* after backend.set_field(..)? *)
ingest_relation_2(ev1, s0, relation) ==
    IF ~IsOk(s0) THEN Outcome(ev1, s0)
    ELSE ingest_relation_3(
            [ev1 EXCEPT
                !.verified_at_least_one_gate =
                    IF Len(relation.gates) > 0 THEN TRUE ELSE @,
                !.known_functions = InsertFunctions(@, relation.functions)],
            s0, relation)

(* A variant of ingest_relation that gives every Relation message a  *)
(* fresh top-level scope.                                            *)
ingest_relation_1_fresh_scope(ev1, be, relation) ==
    ingest_relation_2(ev1,
        set_field(InterpState(EmptyMap, EmptyMap, ev1.instance_queue,
                              ev1.witness_queue, be),
                  relation.header.field_characteristic,
                  relation.header.field_degree, ev1.is_boolean),
        relation)

ingest_relation_1(ev1, be, relation) ==
    ingest_relation_2(ev1,
        set_field(InterpState(ev1.values, EmptyMap, ev1.instance_queue,
                              ev1.witness_queue, be),
                  relation.header.field_characteristic,
                  relation.header.field_degree, ev1.is_boolean),
        relation)

ingest_relation(ev, be, relation) ==
    ingest_relation_1([ingest_header(ev, relation.header) EXCEPT
                          !.is_boolean = relation.bool],
                      be, relation)

ingest_message_(ev, be, msg) ==
    CASE msg.type = "Instance" -> ingest_instance(ev, be, msg)
      [] msg.type = "Witness"  -> ingest_witness(ev, be, msg)
      [] msg.type = "Relation" -> ingest_relation(ev, be, msg)

(* `if let Err(err) = self.ingest_message_(msg, backend)`: a panic or a    *)
(* stack overflow inside the call is not a Result, it leaves               *)
(* ingest_message by unwinding and found_error is not written.             *)
ingest_message_1(r) ==
    IF r.status = "err" THEN [r EXCEPT !.ev.found_error = Some(r.msg)] ELSE r

(* A variant of ingest_message that keeps ingesting after an error. *)
ingest_message_always(ev, be, msg) ==
    ingest_message_1(ingest_message_(ev, be, msg))

ingest_message(ev, be, msg) ==
    IF ev.found_error # None
    THEN Outcome(ev, InterpState(EmptyMap, EmptyMap, <<>>, <<>>, be))
    ELSE ingest_message_1(ingest_message_(ev, be, msg))

(* A variant of get_violations that leaves out the recorded error when no *)
(* gate was verified.                                                    *)
get_violations_notice_only(ev) ==
    IF ~ev.verified_at_least_one_gate
    THEN <<"Did not receive any gate to verify.">>
    ELSE IF ev.found_error # None THEN <<ev.found_error[1]>> ELSE <<>>

get_violations(ev) ==
    (IF ~ev.verified_at_least_one_gate
     THEN <<"Did not receive any gate to verify.">> ELSE <<>>)
    \o (IF ev.found_error # None THEN <<ev.found_error[1]>> ELSE <<>>)

RECURSIVE from_messages(_, _, _)
from_messages_1(r, messages) ==
    IF r.status \in {"panic", "diverge"} THEN r
    ELSE from_messages(r.ev, r.backend, Tail(messages))

from_messages(ev, be, messages) ==
    IF Len(messages) = 0
    THEN Outcome(ev, InterpState(EmptyMap, EmptyMap, <<>>, <<>>, be))
    ELSE from_messages_1(ingest_message(ev, be, Head(messages)), messages)

-----------------------------------------------------------------------------
(* The state machine.                                                      *)

Ev ==
    [values |-> values, modulus |-> modulus, instance_queue |-> instance_queue,
     witness_queue |-> witness_queue, is_boolean |-> is_boolean,
     known_functions |-> known_functions,
     verified_at_least_one_gate |-> verified_at_least_one_gate,
     found_error |-> found_error]

SetEvaluator(ev) ==
    /\ values' = ev.values
    /\ modulus' = ev.modulus
    /\ instance_queue' = ev.instance_queue
    /\ witness_queue' = ev.witness_queue
    /\ is_boolean' = ev.is_boolean
    /\ known_functions' = ev.known_functions
    /\ verified_at_least_one_gate' = ev.verified_at_least_one_gate
    /\ found_error' = ev.found_error

(* A fresh evaluator (Evaluator::default()) driving backend `be`. *)
InitWith(be) ==
    /\ values = Evaluator_default.values
    /\ modulus = Evaluator_default.modulus
    /\ instance_queue = Evaluator_default.instance_queue
    /\ witness_queue = Evaluator_default.witness_queue
    /\ is_boolean = Evaluator_default.is_boolean
    /\ known_functions = Evaluator_default.known_functions
    /\ verified_at_least_one_gate = Evaluator_default.verified_at_least_one_gate
    /\ found_error = Evaluator_default.found_error
    /\ backend = be
    /\ violations = None
    /\ ops = <<>>
    /\ trace = <<>>
    /\ nmsgs = 0
    /\ result = None

(* evaluator.ingest_message(&msg, backend); a test that re-evaluates the  *)
(* stream later keeps the messages it has ingested in arg.                *)
IngestMessage(msg) ==
    /\ pc = "running"
    /\ \E r \in {ingest_message(Ev, backend, msg)} :
          /\ SetEvaluator(r.ev)
          /\ backend' = r.backend
          /\ ops' = r.ops
          /\ trace' = r.trace
          /\ pc' = IF r.status \in {"panic", "diverge"} THEN "aborted" ELSE "running"
    /\ nmsgs' = nmsgs + 1
    /\ arg' = IF arg = None THEN None ELSE Some(Append(arg[1], msg))
    /\ UNCHANGED <<violations, result>>

(* evaluator.get_violations(): consumes the evaluator. *)
GetViolations ==
    /\ pc = "running"
    /\ violations' = Some(get_violations(Ev))
    /\ pc' = "consumed"
    /\ UNCHANGED <<evaluator, backend, ops, trace, nmsgs, arg, result>>


-----------------------------------------------------------------------------
(* Specification Spec: an evaluator driving the plaintext backend over a   *)
(* stream of at most MaxMessages messages, then asked for its violations.  *)

MaxMessages == 3

H(p) == Header(<<p>>, 1)

F_mul == Function("mul", 1, 2, 0, 0, <<Mul(0, 1, 2)>>)

StreamMessages ==
    << InstanceMsg(H(3), << <<1>> >>),
       InstanceMsg(H(3), << <<2>>, <<0>> >>),
       WitnessMsg(H(3), << <<2>> >>),
       WitnessMsg(H(3), << <<1, 0>>, <<1>> >>),
       \* a relation that succeeds and frees what it bound
       RelationMsg(H(3), FALSE, <<>>,
                   <<Constant(0, <<0>>), AssertZero(0), Free(0, None)>>),
       \* a relation whose assertion fails
       RelationMsg(H(3), FALSE, <<>>,
                   <<Constant(1, <<1>>), AssertZero(1), Constant(2, <<0>>)>>),
       \* field configuration fails: zero modulus, degree 2
       RelationMsg(H(0), FALSE, <<>>, <<Constant(0, <<0>>)>>),
       RelationMsg(Header(<<3>>, 2), FALSE, <<>>, <<Constant(0, <<0>>)>>),
       RelationMsg(Header(<<0, 0>>, 2), FALSE, <<>>, <<Constant(0, <<0>>)>>),
       \* no gate at all
       RelationMsg(H(3), FALSE, <<>>, <<>>),
       \* declares a function and leaves wire 4 bound
       RelationMsg(H(3), FALSE, <<F_mul>>, <<Constant(4, <<2>>)>>),
       \* reads the wire an earlier relation left bound
       RelationMsg(H(3), FALSE, <<>>, <<Copy(5, 4), Free(4, Some(5))>>),
       \* calls a function declared by an earlier or by this relation
       RelationMsg(H(3), FALSE, <<>>,
                   <<Instance(0), Witness(1), Call("mul", <<W(2)>>, <<W(0), W(1)>>),
                     AddConstant(3, 2, <<1>>), AssertZero(3), Free(0, Some(3))>>),
       \* consumes both pools in a boolean field
       RelationMsg(H(2), TRUE, <<>>,
                   <<Instance(0), Witness(1), Xor(2, 0, 1), AssertZero(2),
                     Free(0, Some(2))>>) >>

Init == InitWith(PlaintextBackend) /\ pc = "running" /\ arg = None

Next ==
    \/ \E i \in 1..Len(StreamMessages) :
          nmsgs < MaxMessages /\ IngestMessage(StreamMessages[i])
    \/ GetViolations

Spec == Init /\ [][Next]_vars

-----------------------------------------------------------------------------
(* C1 -- error stickiness: once ingest_message has recorded an error,      *)
(* every later ingest_message call issues no backend call and leaves the   *)
(* recorded error, the top-level scope, both pools and the function table  *)
(* unchanged; the recorded error is never replaced.                        *)
C1_ErrorSticky ==
    [][ (found_error # None /\ nmsgs' # nmsgs) =>
           /\ ops' = <<>>
           /\ backend' = backend
           /\ found_error' = found_error
           /\ values' = values
           /\ instance_queue' = instance_queue
           /\ witness_queue' = witness_queue
           /\ known_functions' = known_functions ]_vars

(* An error was recorded by an earlier message and the last message was    *)
(* dropped (every call that reaches a relation issues set_field).          *)
C1_Witness ==
    /\ found_error # None
    /\ nmsgs >= 2
    /\ ops = <<>>
    /\ instance_queue # <<>>

(* C2 as stated: with an error recorded, get_violations returns exactly    *)
(* one element, the recorded error.                                        *)
C2_SingleViolation ==
    (violations # None /\ found_error # None) =>
        violations[1] = <<found_error[1]>>

(* C2 amended: the recorded error is the last element returned; it is the  *)
(* only element when a relation with a non-empty gate list got past field  *)
(* configuration, and otherwise it is preceded by exactly "Did not receive *)
(* any gate to verify.".                                                   *)
C2_ErrorIsLastViolation ==
    (violations # None /\ found_error # None) =>
        LET v == violations[1] IN
        /\ Len(v) \in {1, 2}
        /\ v[Len(v)] = found_error[1]
        /\ Len(v) = 1 <=> verified_at_least_one_gate
        /\ Len(v) = 2 => v[1] = "Did not receive any gate to verify."

C2_Witness ==
    /\ violations # None
    /\ found_error = Some("Modulus cannot be zero.")
    /\ Len(violations[1]) = 2

-----------------------------------------------------------------------------
(* Specification SpecWeight: compute_weight as a function of the modulus,  *)
(* the case literal, the condition wire and is_boolean, on a plaintext     *)
(* backend whose field has been set.                                       *)

MaxPrime == 7

IsPrime(n) == n > 1 /\ \A d \in 2..(n - 1) : n % d # 0

WeightPrimes == {n \in 2..MaxPrime : IsPrime(n)}

InitWeight ==
    /\ InitWith(PlaintextBackend)
    /\ pc = "weight"
    /\ \E p \in WeightPrimes, bool \in BOOLEAN :
          /\ bool => p = 2
          /\ \E c \in 0..(p - 1), v \in 0..(p - 1) :
                arg = Some([modulus |-> p, is_boolean |-> bool,
                            case |-> <<c>>, condition |-> v])

(* The state after backend.set_field(..), with an empty record of calls. *)
FieldSet(be, p, bool) ==
    [set_field(InterpState(EmptyMap, EmptyMap, <<>>, <<>>, be), <<p>>, 1, bool)
        EXCEPT !.ops = <<>>]

ComputeWeight ==
    /\ pc = "weight"
    /\ \E r \in {compute_weight(
                    FieldSet(backend, arg[1].modulus, arg[1].is_boolean),
                    arg[1].case, arg[1].condition, arg[1].modulus,
                    arg[1].is_boolean)} :
          /\ result' = Some([status |-> r.status, w |-> r.w])
          /\ ops' = r.ops
          /\ backend' = r.backend
    /\ pc' = "weighted"
    /\ UNCHANGED <<evaluator, violations, trace, nmsgs, arg>>

NextWeight == ComputeWeight

SpecWeight == InitWeight /\ [][NextWeight]_vars

(* The weight the specification gives: 1 on the case, 0 elsewhere. *)
WeightIsIndicator ==
    /\ result[1].status = "ok"
    /\ result[1].w = IF FromBytesLE(arg[1].case) = arg[1].condition THEN 1 ELSE 0

OpsAmong(S) == \A i \in 1..Len(ops) : ops[i] \in S

(* C5 as stated: compute_weight returns 1 when c = v and 0 otherwise, and  *)
(* in a boolean field the backend is asked only for copy, xor, and, not.   *)
C5_WeightOnlyBooleanOps ==
    pc = "weighted" =>
        /\ WeightIsIndicator
        /\ arg[1].is_boolean => OpsAmong({"copy", "xor", "and", "not"})

(* C5 amended: compute_weight returns 1 when c = v and 0 otherwise; in a   *)
(* boolean field the backend is asked only for constant (the wire of the   *)
(* case literal), copy, xor, and, not, and in an arithmetic field for no   *)
(* boolean operation.                                                      *)
C5_WeightIsIndicator ==
    pc = "weighted" =>
        /\ WeightIsIndicator
        /\ arg[1].is_boolean =>
              OpsAmong({"constant", "copy", "xor", "and", "not"})
        /\ ~arg[1].is_boolean =>
              OpsAmong({"constant", "copy", "minus_one", "one", "mul_constant",
                        "add_constant", "add", "multiply"})

C5_Witness ==
    /\ pc = "weighted"
    /\ arg[1].is_boolean
    /\ FromBytesLE(arg[1].case) = arg[1].condition
    /\ result[1].w = 1
    /\ \E i \in 1..Len(ops) : ops[i] = "constant"

-----------------------------------------------------------------------------
(* Specification SpecGate: one Instance message, one Witness message and   *)
(* one Relation, in a prime field, on the plaintext backend.  The pools    *)
(* range over all short sequences of values up to MaxVal; the relation     *)
(* ranges over the circuits below.                                         *)

MaxVal == 2

Pools(n) == UNION {[1..k -> 0..MaxVal] : k \in 0..n}

Bytes(vals) == [i \in 1..Len(vals) |-> <<vals[i]>>]

GatePrimes == {2, 3}

I(e) == IterExprName(e)
Plus(e, c) == IterExprAdd(IterExprName(e), IterExprConst(c))

GateFunctions ==
    << F_mul,
       Function("chk", 1, 1, 0, 0, <<AssertZero(1), Copy(0, 1)>>),
       Function("noout", 1, 1, 0, 0, <<AssertZero(1)>>),
       Function("peek", 1, 0, 0, 0, <<Copy(0, 3)>>),
       Function("dup", 1, 1, 0, 0, <<Copy(0, 1), Copy(0, 1)>>),
       Function("inst", 1, 0, 1, 0, <<Instance(0)>>),
       Function("loop", 1, 1, 0, 0,
                <<For("j", 0, 0, IterExprAnonCall(<<Single(I("j"))>>,
                                                  <<Single(IterExprConst(1))>>,
                                                  0, 0, <<Copy(0, 1)>>))>>) >>

(* wires 0 and 1 bound *)
P2 == <<Constant(0, <<1>>), Constant(1, <<1>>)>>

(* wire 0 bound, wire 5 never bound *)
P1 == <<Constant(0, <<1>>)>>

CopyBody == <<Copy(0, 1)>>

AssertCircuits ==
    << <<Witness(0), AssertZero(0), Constant(1, <<1>>), AssertZero(1),
         Constant(2, <<0>>)>>,
       <<Instance(0), Instance(1), Add(2, 0, 1), AssertZero(2), Mul(3, 0, 1),
         AssertZero(3), Free(0, Some(3))>>,
       <<Witness(5), Call("chk", <<W(6)>>, <<W(5)>>), AssertZero(6)>>,
       <<Instance(0), Instance(1),
         For("i", 0, 1, IterExprAnonCall(<<Single(Plus("i", 2))>>, <<Single(I("i"))>>,
                                         0, 0, <<AssertZero(1), Copy(0, 1)>>)),
         AssertZero(2)>>,
       <<Constant(0, <<3>>), AssertZero(0)>> >>

(* a gate whose output wire 0 is bound already *)
DuplicateCircuits ==
    << P2 \o <<Constant(0, <<2>>)>>,
       P2 \o <<Copy(0, 1)>>,
       P2 \o <<Add(0, 0, 1)>>,
       P2 \o <<Mul(0, 0, 1)>>,
       P2 \o <<AddConstant(0, 1, <<1>>)>>,
       P2 \o <<MulConstant(0, 1, <<2>>)>>,
       P2 \o <<And(0, 0, 1)>>,
       P2 \o <<Xor(0, 0, 1)>>,
       P2 \o <<Not(0, 1)>>,
       P2 \o <<Instance(0)>>,
       P2 \o <<Witness(0)>>,
       P2 \o <<Call("mul", <<W(0)>>, <<W(0), W(1)>>)>>,
       P2 \o <<AnonCall(<<W(0)>>, <<W(1)>>, 0, 0, CopyBody)>>,
       P2 \o <<For("i", 0, 1, IterExprAnonCall(<<Single(I("i"))>>, <<Single(I("i"))>>,
                                               0, 0, CopyBody))>>,
       P2 \o <<Switch(1, <<W(0)>>, << <<1>> >>,
                      <<AbstractAnonCall(<<W(1)>>, 0, 0, CopyBody)>>)>>,
       \* the same, in the scope of a body
       P2 \o <<AnonCall(<<W(2)>>, <<W(1)>>, 0, 0, <<Copy(0, 1), Copy(0, 1)>>)>>,
       P2 \o <<Call("dup", <<W(2)>>, <<W(1)>>)>>,
       P2 \o <<For("i", 2, 3, IterExprAnonCall(<<Single(I("i"))>>,
                                               <<Single(IterExprConst(1))>>,
                                               0, 0, <<Copy(1, 1)>>))>>,
       P2 \o <<For("i", 2, 3, IterExprAnonCall(<<Single(I("i"))>>,
                                               <<Single(IterExprConst(1))>>,
                                               0, 0, CopyBody))>>,
       P2 \o <<Switch(1, <<W(2)>>, << <<0>> >>,
                      <<AbstractAnonCall(<<W(1)>>, 0, 0,
                                         <<Instance(0), Copy(0, 1)>>)>>)>>,
       P2 \o <<Call("mul", <<W(2), W(2)>>, <<W(0), W(1)>>)>>,
       P2 \o <<AnonCall(<<W(2), W(2)>>, <<W(1)>>, 0, 0,
                        <<Copy(0, 2), Copy(1, 2)>>)>>,
       \* the output is bound already and the gate fails before binding it
       P2 \o <<Add(0, 5, 6)>>,
       P2 \o <<Call("mul", <<W(0)>>, <<W(1)>>)>>,
       P2 \o <<Call("chk", <<W(0)>>, <<W(1)>>)>>,
       \* the same identifier in two scopes, and an identifier bound again
       \* after a Free
       P2 \o <<AnonCall(<<W(2)>>, <<W(1)>>, 0, 0, CopyBody)>>,
       P2 \o <<Free(0, None), Constant(0, <<2>>), Free(0, Some(1))>> >>

(* a gate that reads wire 5, which has no binding *)
UnboundCircuits ==
    << P1 \o <<AssertZero(5)>>,
       P1 \o <<Copy(1, 5)>>,
       P1 \o <<Add(1, 0, 5)>>,
       P1 \o <<Add(1, 5, 0)>>,
       P1 \o <<Mul(1, 5, 5)>>,
       P1 \o <<AddConstant(1, 5, <<1>>)>>,
       P1 \o <<MulConstant(1, 5, <<1>>)>>,
       P1 \o <<And(1, 0, 5)>>,
       P1 \o <<Xor(1, 5, 0)>>,
       P1 \o <<Not(1, 5)>>,
       P1 \o <<Free(5, None)>>,
       P1 \o <<Free(0, Some(1))>>,
       P1 \o <<Free(0, None), Copy(1, 0)>>,
       P1 \o <<Call("mul", <<W(1)>>, <<W(0), W(5)>>)>>,
       P1 \o <<AnonCall(<<W(1)>>, <<W(5)>>, 0, 0, CopyBody)>>,
       P1 \o <<Switch(5, <<W(1)>>, << <<1>> >>,
                      <<AbstractAnonCall(<<W(0)>>, 0, 0, CopyBody)>>)>>,
       P1 \o <<Switch(0, <<W(1)>>, << <<1>> >>,
                      <<AbstractAnonCall(<<W(5)>>, 0, 0, CopyBody)>>)>>,
       P1 \o <<Switch(5, <<W(1)>>, <<>>, <<>>)>>,
       \* a body that reads a wire of its caller, or leaves its output unbound
       P1 \o <<Constant(3, <<1>>), AnonCall(<<W(1)>>, <<>>, 0, 0, <<Copy(0, 3)>>)>>,
       P1 \o <<Constant(3, <<1>>), Call("peek", <<W(1)>>, <<>>)>>,
       P1 \o <<Call("noout", <<W(1)>>, <<W(0)>>)>>,
       P1 \o <<Constant(3, <<2>>), Constant(4, <<1>>),
               AnonCall(<<W(1)>>, <<W(3), W(4)>>, 0, 0,
                        <<Free(1, None), Copy(0, 2), AssertZero(1)>>)>>,
       \* a For whose second iteration reads wire 4
       P1 \o <<Constant(3, <<1>>),
               For("i", 0, 1, IterExprAnonCall(<<Single(Plus("i", 1))>>,
                                               <<Single(Plus("i", 3))>>,
                                               0, 0, CopyBody))>>,
       P1 \o <<Constant(3, <<1>>),
               For("i", 1, 2, IterExprCall("mul", <<Single(I("i"))>>,
                                           <<Single(IterExprConst(0)),
                                             Single(Plus("i", 2))>>))>> >>

(* Free over a range, an empty range, in a For body, and over a range    *)
(* whose last identifier has no binding                                  *)
FreeCircuits ==
    << P2 \o <<Constant(2, <<1>>), Free(0, Some(1)), Copy(3, 2)>>,
       P2 \o <<Free(1, Some(0)), Copy(2, 0)>>,
       P2 \o <<Instance(2),
               For("i", 0, 0, IterExprAnonCall(<<Single(Plus("i", 3))>>,
                                               <<Single(IterExprConst(0)),
                                                 Single(IterExprConst(1))>>,
                                               0, 0,
                                               <<Free(1, None), Copy(0, 2)>>))>>,
       P2 \o <<Free(0, Some(2))>> >>

(* a Call with the wrong number of outputs, of inputs, or of both *)
ArityCircuits ==
    << P2 \o <<Instance(2), Witness(3), Call("mul", <<>>, <<W(0)>>)>>,
       P2 \o <<Instance(2), Call("mul", <<W(3)>>, <<W(0), W(1), W(2)>>)>>,
       P2 \o <<AnonCall(<<W(2)>>, <<W(0)>>, 0, 0,
                        <<Call("mul", <<W(0)>>, <<W(1), W(1), W(1)>>)>>)>>,
       P1 \o <<Call("mul", <<W(1)>>, <<W(5)>>)>>,
       P2 \o <<Call("inst", <<W(2), W(3)>>, <<>>)>> >>

(* bodies that bind and free wires of their own, under identifiers the  *)
(* caller uses too                                                       *)
CallCircuits ==
    << P2 \o <<Constant(7, <<2>>),
               AnonCall(<<W(2), W(3)>>, <<W(7), W(0)>>, 0, 0,
                        <<Copy(0, 2), Add(1, 2, 3), Mul(7, 2, 2), Free(2, None)>>),
               Call("mul", <<W(4)>>, <<W(2), W(3)>>)>>,
       P2 \o <<Call("mul", <<W(2)>>, <<W(1), W(1)>>),
               AnonCall(<<>>, <<W(2)>>, 0, 0, <<Free(0, None)>>),
               AnonCall(<<W(3)>>, <<>>, 0, 0, <<Constant(0, <<2>>)>>),
               AnonCall(<<>>, <<>>, 0, 0, <<>>)>> >>

(* named and anonymous bodies invoked inside a For *)
IterCircuits ==
    << P2 \o <<For("i", 2, 3,
                   IterExprAnonCall(
                       <<Single(I("i"))>>,
                       <<Single(IterExprConst(0)), Single(IterExprConst(1))>>,
                       0, 0,
                       <<Call("mul", <<W(3)>>, <<W(1), W(2)>>),
                         AnonCall(<<W(4)>>, <<W(3)>>, 0, 0, CopyBody),
                         Switch(1, <<W(0)>>, << <<1>>, <<0>> >>,
                                <<AbstractGateCall("mul", <<W(3), W(4)>>),
                                  AbstractAnonCall(<<W(4)>>, 0, 0, CopyBody)>>)>>))>>,
       P2 \o <<For("i", 2, 3,
                   IterExprAnonCall(
                       <<Single(I("i"))>>, <<Single(IterExprConst(0))>>, 0, 0,
                       <<For("j", 2, 2, IterExprCall("loop", <<Single(I("j"))>>,
                                                     <<Single(IterExprConst(1))>>)),
                         For("j", 0, 0,
                             IterExprAnonCall(<<Single(I("j"))>>,
                                              <<Single(Plus("j", 2))>>,
                                              0, 0, CopyBody))>>))>>,
       P2 \o <<For("i", 2, 3, IterExprCall("loop", <<Single(I("i"))>>,
                                           <<Single(IterExprConst(1))>>))>>,
       \* a loop without iterations, and a loop in the body of a loop on the
       \* same iterator
       P2 \o <<For("i", 3, 2, IterExprAnonCall(<<Single(I("i"))>>,
                                               <<Single(IterExprConst(1))>>,
                                               0, 0, CopyBody)),
               Copy(2, 0)>>,
       P2 \o <<For("i", 2, 3,
                   IterExprAnonCall(
                       <<Single(I("i"))>>,
                       <<Single(IterExprSub(I("i"), IterExprConst(2)))>>, 0, 0,
                       <<For("i", 0, 0,
                             IterExprAnonCall(<<Single(I("i"))>>,
                                              <<Single(Plus("i", 1))>>,
                                              0, 0, CopyBody)),
                         Copy(2, 1)>>))>> >>

GateCircuits ==
    AssertCircuits \o DuplicateCircuits \o UnboundCircuits \o FreeCircuits
    \o ArityCircuits \o CallCircuits \o IterCircuits

(* Switches on the witness: two branches on cases c1 and c2; a Switch on  *)
(* c2 nested in a branch on c1; two branches that consume the pools.      *)
SwitchCircuit(k, c1, c2) ==
    CASE k = 1 ->
           <<Witness(0), Instance(1),
             Switch(0, <<W(2)>>, << <<c1>>, <<c2>> >>,
                    <<AbstractAnonCall(<<W(1)>>, 0, 0, <<AddConstant(0, 1, <<1>>)>>),
                      AbstractAnonCall(<<W(1)>>, 0, 0,
                                       <<MulConstant(0, 1, <<2>>), AssertZero(1)>>)>>),
             AssertZero(2)>>
      [] k = 2 ->
           <<Witness(0), Instance(1), Instance(2),
             Switch(0, <<W(3)>>, << <<c1>> >>,
                    <<AbstractAnonCall(<<W(1), W(2)>>, 0, 0,
                        <<Switch(1, <<W(0)>>, << <<c2>> >>,
                                 <<AbstractAnonCall(<<W(2)>>, 0, 0,
                                      <<AssertZero(1),
                                        AddConstant(0, 1, <<1>>)>>)>>)>>)>>)>>
      [] k = 3 ->
           <<Witness(0),
             Switch(0, <<W(1)>>, << <<c1>>, <<c2>> >>,
                    <<AbstractAnonCall(<<>>, 1, 0, <<Instance(0)>>),
                      AbstractGateCall("inst", <<>>)>>),
             Instance(2)>>

SwitchShapes == 1..3

NextGate ==
    \/ \E p \in GatePrimes, inst \in Pools(2) :
          nmsgs = 0 /\ IngestMessage(InstanceMsg(H(p), Bytes(inst)))
    \/ \E wit \in Pools(1) :
          nmsgs = 1 /\ IngestMessage(WitnessMsg(H(modulus), Bytes(wit)))
    \/ \E bool \in BOOLEAN, i \in 1..Len(GateCircuits) :
          /\ nmsgs = 2
          /\ bool => modulus = 2
          /\ IngestMessage(RelationMsg(H(modulus), bool, GateFunctions,
                                       GateCircuits[i]))
    \/ \E bool \in BOOLEAN, k \in SwitchShapes :
          \E c1 \in 0..(modulus - 1), c2 \in 0..(modulus - 1) :
             /\ nmsgs = 2
             /\ bool => modulus = 2
             /\ IngestMessage(RelationMsg(H(modulus), bool, GateFunctions,
                                          SwitchCircuit(k, c1, c2)))

SpecGate == Init /\ [][NextGate]_vars

Assertions == {i \in 1..Len(trace) : trace[i].e = "assert"}
Gates == {i \in 1..Len(trace) : trace[i].e = "gate"}
Switches == {i \in 1..Len(trace) : trace[i].e = "switch"}

AllTaken(enclosing) == \A j \in 1..Len(enclosing) : enclosing[j]

(* The sum of the values bound to wire o by the first j branches whose    *)
(* case literal is the condition.                                          *)
RECURSIVE SumMatching(_, _, _)
SumMatching(sw, o, j) ==
    IF j = 0 THEN 0
    ELSE SumMatching(sw, o, j - 1)
         + (IF sw.cases[j] % modulus = sw.condition[1] % modulus
            THEN sw.branches_scope[j][o] ELSE 0)

(* C6 as stated: after a successful Switch every wire of the expanded      *)
(* output list is bound in the caller scope to the sum modulo p of the     *)
(* corresponding outputs of the branches whose case is the condition.      *)
C6_SwitchSumOfMatching ==
    \A i \in Switches :
        LET sw == trace[i].f IN
        \A k \in 1..Len(sw.expanded_output) :
            /\ sw.expanded_output[k] \in DOMAIN sw.scope
            /\ sw.scope[sw.expanded_output[k]]
                 = SumMatching(sw, sw.expanded_output[k], Len(sw.weights)) % modulus

(* C6 amended: after a successful Switch every wire of the expanded output *)
(* list is bound in the caller scope to the sum modulo p of the outputs of *)
(* the branches whose case is the condition when the Switch is at top      *)
(* level or every enclosing Switch branch is taken, and to 0 when the      *)
(* Switch is executed inside a branch that is not taken.                   *)
C6_SwitchWeightedSum ==
    \A i \in Switches :
        LET sw == trace[i].f IN
        \A k \in 1..Len(sw.expanded_output) :
            /\ sw.expanded_output[k] \in DOMAIN sw.scope
            /\ sw.scope[sw.expanded_output[k]]
                 = IF AllTaken(sw.enclosing)
                   THEN SumMatching(sw, sw.expanded_output[k], Len(sw.weights))
                            % modulus
                   ELSE 0

(* A Switch inside a branch that is not taken, whose own case matches and  *)
(* whose branch output is not zero: its output wire is bound to 0.         *)
C6_Witness ==
    \E i \in Switches :
        LET sw == trace[i].f IN
        /\ sw.enclosing = <<FALSE>>
        /\ Len(sw.expanded_output) = 1
        /\ SumMatching(sw, sw.expanded_output[1], Len(sw.weights)) % modulus # 0
        /\ sw.scope[sw.expanded_output[1]] = 0

(* C7 -- nested branch weights: an AssertZero inside nested Switch         *)
(* branches is checked against the product of the weights of all enclosing *)
(* branches times the wire value; it fails only if every enclosing branch  *)
(* is taken and the wire is non-zero, and never fails in a branch whose    *)
(* own or any outer case does not match.                                   *)
C7_NestedWeights ==
    \A i \in Assertions :
        LET a == trace[i].f IN
        /\ a.enclosing = <<>> => a.weight = None /\ a.should_be_zero = a.wire
        /\ a.enclosing # <<>> =>
              /\ a.weight = Some(IF AllTaken(a.enclosing) THEN 1 ELSE 0)
              /\ a.should_be_zero = (a.weight[1] * a.wire) % modulus
        /\ a.is_err => AllTaken(a.enclosing) /\ a.wire # 0
        /\ ~AllTaken(a.enclosing) => ~a.is_err

(* An AssertZero on a non-zero wire, in a taken branch nested in a branch  *)
(* that is not taken: it passes.                                           *)
C7_Witness ==
    \E i \in Assertions :
        /\ trace[i].f.enclosing = <<FALSE, TRUE>>
        /\ trace[i].f.wire % modulus # 0
        /\ ~trace[i].f.is_err

(* C8 -- assertion failure: evaluation stops at the first AssertZero whose *)
(* (weighted) value is non-zero, no later gate is executed, and the error  *)
(* is "Wire_<id> (may be weighted) should be 0, while it is not" with the  *)
(* identifier written in that gate.                                        *)
C8_AssertionFailureStops ==
    \A i \in Assertions :
        /\ trace[i].f.is_err <=> trace[i].f.should_be_zero # 0
        /\ trace[i].f.is_err =>
              /\ i = Len(trace)
              /\ pc = "running"
              /\ found_error =
                    Some("Wire_" \o ToString(trace[i].id)
                         \o " (may be weighted) should be 0, while it is not")

(* The assertion of the body of "chk" fails on its local wire 1, which is  *)
(* wire 5 of the caller.                                                   *)
C8_Witness ==
    /\ found_error = Some("Wire_1 (may be weighted) should be 0, while it is not")
    /\ \E i \in Gates : trace[i].k = "Call" /\ 5 \in DOMAIN trace[i].f.scope
    /\ trace[Len(trace)].e = "assert"

Failed == found_error # None \/ pc = "aborted"

DuplicateMessage(id) ==
    Some("Wire_" \o ToString(id) \o " already has a value in this scope.")

UnboundMessage(id) == Some("No value given for wire_" \o ToString(id))

(* The gates whose output list names a wire bound in the scope they run in. *)
Rebinding ==
    {i \in Gates : trace[i].f.outs \cap DOMAIN trace[i].f.scope # {}}

(* C9 as stated: a gate whose output identifier already has a binding in   *)
(* the scope it runs in fails with "Wire_<id> already has a value in this  *)
(* scope." for that identifier.                                            *)
C9_RebindingGivesDuplicateError ==
    \A i \in Rebinding :
        \E id \in trace[i].f.outs \cap DOMAIN trace[i].f.scope :
            found_error = DuplicateMessage(id)

(* C9 amended: within one scope a wire is bound at most once until freed:  *)
(* a gate whose output identifier already has a binding in that scope      *)
(* fails, and it fails with "Wire_<id> already has a value in this scope." *)
(* when evaluation reaches the binding of that output; a failure met       *)
(* earlier in the gate (an unbound input, a wrong number of wires, a       *)
(* failing body, an empty value pool) is reported instead.                 *)
C9_SingleAssignment ==
    /\ \A i \in Rebinding : Failed
    /\ \A i \in 1..Len(trace) :
          (trace[i].e = "set" /\ trace[i].f) =>
              i = Len(trace) /\ found_error = DuplicateMessage(trace[i].id)

(* A Switch whose output wire 0 is already bound in the caller scope: the  *)
(* branches run and the binding of the output is refused.                  *)
C9_Witness ==
    /\ found_error = DuplicateMessage(0)
    /\ \E i \in Rebinding : trace[i].k = "Switch" /\ trace[i].f.depth = 0
    /\ trace[Len(trace)].e = "set" /\ trace[Len(trace)].f

TopGates == {i \in Gates : trace[i].f.depth = 0}

LastTopGate == trace[CHOOSE i \in TopGates : \A j \in TopGates : j <= i]

UnboundRead ==
    /\ trace # <<>>
    /\ trace[Len(trace)].e \in {"get", "remove"}
    /\ ~trace[Len(trace)].f

(* The scope a subcircuit body starts in: the values of the caller's input *)
(* wires, at the identifiers that follow the outputs.                      *)
InputsOnly(n, input_list, caller) ==
    [id \in n..(n + Len(input_list) - 1) |-> caller[input_list[id - n + 1]]]

-----------------------------------------------------------------------------
(* Specification SpecFlat: test_evaluate_flattening over a catalogue of    *)
(* statements.  A fresh evaluator ingests an Instance, a Witness and a     *)
(* Relation driving the flattener; the flattener is finished and the       *)
(* messages in its sink, and the original ones, are each evaluated by      *)
(* Evaluator::from_messages on a fresh plaintext backend.                  *)

FlatModuli == {0, 2, 3}

FlatCircuits ==
    AssertCircuits \o
    << <<Instance(0), Witness(1), Mul(2, 0, 1), AssertZero(2)>>,
       <<Instance(0), Instance(1), Call("mul", <<W(2)>>, <<W(0), W(1)>>),
         AddConstant(3, 2, <<1>>), AssertZero(3), Free(0, Some(2))>>,
       <<Witness(0),
         For("i", 1, 2, IterExprAnonCall(<<Single(I("i"))>>,
                                         <<Single(IterExprSub(I("i"), IterExprConst(1)))>>,
                                         0, 0, <<AddConstant(0, 1, <<1>>)>>)),
         MulConstant(3, 2, <<2>>), AssertZero(3)>>,
       <<Instance(0), Witness(1), Xor(2, 0, 1), And(3, 0, 1), Not(4, 3),
         Copy(5, 4), AssertZero(2)>>,
       <<Instance(0), AssertZero(0), Instance(1), AssertZero(1)>>,
       <<Witness(0), Witness(1)>>,
       <<Instance(0), Add(1, 0, 5)>>,
       <<AnonCall(<<>>, <<>>, 0, 0, <<>>)>>,
       <<For("i", 1, 0, IterExprCall("mul", <<Single(I("i"))>>,
                                     <<Single(I("i")), Single(I("i"))>>))>>,
       <<>> >>

InitFlat == InitWith(IRFlattener) /\ pc = "running" /\ arg = Some(<<>>)

(* What evaluating a stream came to: how from_messages ended and what      *)
(* get_violations then reports.                                            *)
Verdict(r) == [status |-> r.status, violations |-> get_violations(r.ev)]

(* flattener.finish(), then Evaluator::from_messages on the sink and on    *)
(* the original messages, each with PlaintextBackend::default().           *)
Finish ==
    /\ pc = "running"
    /\ nmsgs = 3
    /\ backend.b # None
    /\ \E emitted \in {IRFlattener_finish(backend)} :
          result' = Some([succeeded |-> found_error = None,
                          emitted |-> emitted,
                          flat |-> Verdict(from_messages(Evaluator_default,
                                                         PlaintextBackend, emitted)),
                          orig |-> Verdict(from_messages(Evaluator_default,
                                                         PlaintextBackend, arg[1]))])
    /\ pc' = "finished"
    /\ UNCHANGED <<evaluator, backend, violations, ops, trace, nmsgs, arg>>

NextFlat ==
    \/ \E p \in FlatModuli, inst \in Pools(2) :
          nmsgs = 0 /\ IngestMessage(InstanceMsg(H(p), Bytes(inst)))
    \/ \E wit \in Pools(1) :
          nmsgs = 1 /\ IngestMessage(WitnessMsg(H(modulus), Bytes(wit)))
    \/ \E bool \in BOOLEAN, i \in 1..Len(FlatCircuits) :
          /\ nmsgs = 2
          /\ bool => modulus = 2
          /\ IngestMessage(RelationMsg(H(modulus), bool, GateFunctions,
                                       FlatCircuits[i]))
    \/ \E bool \in BOOLEAN, k \in SwitchShapes :
          \E c1 \in 0..(modulus - 1), c2 \in 0..(modulus - 1) :
             /\ nmsgs = 2
             /\ bool => modulus = 2
             /\ IngestMessage(RelationMsg(H(modulus), bool, GateFunctions,
                                          SwitchCircuit(k, c1, c2)))
    \/ Finish

SpecFlat == InitFlat /\ [][NextFlat]_vars

MaxWire == 63

NoViolation(v) == v.status = "ok" /\ v.violations = <<>>

AssertionFailure(v) ==
    /\ v.status = "ok"
    /\ \E id \in 0..MaxWire :
          v.violations
            = <<"Wire_" \o ToString(id)
                 \o " (may be weighted) should be 0, while it is not">>

Flattened == pc = "finished" /\ result[1].succeeded

(* C3 -- flattening soundness: whenever the evaluator driven by the        *)
(* flattening backend succeeds, evaluating the emitted messages and        *)
(* evaluating the original messages on the plaintext backend come to the   *)
(* same outcome, no violation in both or an assertion failure in both:     *)
(* one run ends without violation exactly if the other does, and one ends  *)
(* with an assertion failure exactly if the other does.                    *)
C3_FlatteningSoundness ==
    Flattened =>
        /\ NoViolation(result[1].orig) <=> NoViolation(result[1].flat)
        /\ AssertionFailure(result[1].orig) <=> AssertionFailure(result[1].flat)

(* Where the original run ends without violation or with an assertion     *)
(* failure and at least one primitive gate was emitted, the flattened run  *)
(* ends the same way.                                                      *)
FlatteningAgrees ==
    (Flattened /\ result[1].emitted[3].gates # <<>>) =>
        /\ NoViolation(result[1].orig) => NoViolation(result[1].flat)
        /\ AssertionFailure(result[1].orig) => AssertionFailure(result[1].flat)
        /\ result[1].orig.status = result[1].flat.status

Primitives ==
    {"Constant", "Copy", "Add", "Mul", "AddConstant", "MulConstant", "And",
     "Xor", "Not", "AssertZero", "Instance", "Witness"}

(* C4 -- whatever relation drives the interpreter, every gate the          *)
(* flattening backend emits is one of the primitive gates Constant, Copy,  *)
(* Add, Mul, AddConstant, MulConstant, And, Xor, Not, AssertZero, Instance,*)
(* Witness; no Call, AnonCall, For or Switch is ever emitted.              *)
C4_OnlyPrimitiveGates ==
    backend.b # None =>
        \A i \in 1..Len(backend.b[1].gates) :
            backend.b[1].gates[i].k \in Primitives

(* A Switch nested in a Switch has been flattened, and its weights have    *)
(* been emitted as multiplications.                                        *)
C4_Witness ==
    /\ backend.b # None
    /\ found_error = None
    /\ \E i \in Switches : Len(trace[i].f.enclosing) = 1
    /\ \E i \in 1..Len(backend.b[1].gates) : backend.b[1].gates[i].k = "Mul"
    /\ \E i \in 1..Len(backend.b[1].gates) : backend.b[1].gates[i].k = "AssertZero"

-----------------------------------------------------------------------------
(* A gate and what it left: the "done" event of the gate logged at i is    *)
(* the first later one at the same depth; a gate that failed has none.     *)

DonesOf(i) ==
    {j \in (i + 1)..Len(trace) :
        trace[j].e = "done" /\ trace[j].f.depth = trace[i].f.depth}

Succeeded(i) == DonesOf(i) # {}

DoneOf(i) == trace[CHOOSE j \in DonesOf(i) : \A k \in DonesOf(i) : j <= k].f

(* The identifiers a successful gate removed from the scope it ran in. *)
Freed(i) ==
    IF Succeeded(i) THEN DOMAIN trace[i].f.scope \ DOMAIN DoneOf(i).scope ELSE {}

(* C11 -- a freed identifier can never be rebound: after a Free has        *)
(* removed an identifier from the top-level scope, a later gate of that    *)
(* scope that binds the identifier again fails.                            *)
C11_FreedNeverRebound ==
    \A i \in TopGates :
        trace[i].k = "Free" =>
            \A j \in TopGates :
                (j > i /\ trace[j].f.outs \cap Freed(i) # {}) => ~Succeeded(j)

FreeLast(g) == IF g.last = None THEN g.first ELSE g.last[1]

Without(scope, S) == [x \in DOMAIN scope \ S |-> scope[x]]

(* C12 -- Free(first, last) succeeds exactly when every identifier of     *)
(* first..last (first alone when last is absent) is bound in the current  *)
(* scope; on success the scope is the scope at entry without exactly      *)
(* those identifiers, and the two pools and the iterator environment are  *)
(* as at entry.                                                           *)
C12_FreeRemovesExactlyRange ==
    \A i \in Gates :
        trace[i].k = "Free" =>
            /\ Succeeded(i) <=>
                  (trace[i].f.gate.first..FreeLast(trace[i].f.gate))
                      \subseteq DOMAIN trace[i].f.scope
            /\ Succeeded(i) =>
                  /\ DoneOf(i).scope =
                        Without(trace[i].f.scope,
                                trace[i].f.gate.first..FreeLast(trace[i].f.gate))
                  /\ DoneOf(i).instances = trace[i].f.instances
                  /\ DoneOf(i).witnesses = trace[i].f.witnesses
                  /\ DoneOf(i).known_iterators = trace[i].f.known_iterators

C12_Witness ==
    \E i \in Gates :
        /\ trace[i].k = "Free"
        /\ trace[i].f.gate.last = Some(trace[i].f.gate.first + 1)
        /\ Succeeded(i)
        /\ DOMAIN DoneOf(i).scope # {}
        /\ DoneOf(i).instances # <<>>

-----------------------------------------------------------------------------
(* Specification SpecPool: two Instance or Witness messages in any order, *)
(* then one Relation over the circuits below, in the field of three       *)
(* elements on the plaintext backend, then get_violations.  The messages  *)
(* ingested are kept in arg.                                              *)

PoolFunctions ==
    << Function("inst", 1, 0, 1, 0, <<Instance(0)>>),
       Function("pair", 2, 0, 1, 1, <<Instance(0), Witness(1)>>) >>

PoolCircuits ==
    << <<Instance(0), Instance(1), Instance(2)>>,
       <<Instance(0), Call("inst", <<W(1)>>, <<>>),
         AnonCall(<<W(2)>>, <<>>, 1, 0, <<Instance(0)>>), Instance(3)>>,
       <<Witness(0),
         For("i", 1, 2, IterExprCall("inst", <<Single(I("i"))>>, <<>>)),
         Witness(3)>>,
       <<Instance(0), Instance(0), Instance(1)>>,
       <<Instance(0), Call("pair", <<W(1), W(2)>>, <<>>), Witness(3)>>,
       \* two branches that consume one instance value each
       <<Instance(0),
         Switch(0, <<W(1)>>, << <<1>>, <<2>> >>,
                <<AbstractAnonCall(<<>>, 1, 0, <<Instance(0)>>),
                  AbstractGateCall("inst", <<>>)>>),
         Instance(2)>>,
       \* a branch that declares more than it consumes, one that consumes
       \* nothing
       <<Constant(0, <<1>>),
         Switch(0, <<W(1)>>, << <<1>>, <<2>> >>,
                <<AbstractAnonCall(<<>>, 2, 1, <<Instance(0)>>),
                  AbstractAnonCall(<<>>, 0, 0, <<Constant(0, <<1>>)>>)>>)>>,
       \* a branch that consumes more instance values than it declares
       <<Instance(0),
         Switch(0, <<W(1)>>, << <<1>> >>,
                <<AbstractAnonCall(<<>>, 1, 0,
                                   <<Instance(1), Instance(0)>>)>>),
         Instance(2)>>,
       \* a branch that consumes more witness values than it declares
       <<Instance(0),
         Switch(0, <<W(1)>>, << <<1>>, <<2>> >>,
                <<AbstractGateCall("pair", <<>>),
                  AbstractAnonCall(<<>>, 0, 1,
                                   <<Witness(1), Witness(0)>>)>>)>>,
       \* a branch that declares two instance values and consumes two
       <<Constant(0, <<1>>),
         Switch(0, <<W(1)>>, << <<1>> >>,
                <<AbstractAnonCall(<<>>, 2, 0,
                                   <<Instance(1), Instance(0)>>)>>)>>,
       \* a Switch in a branch of a Switch
       <<Instance(0),
         Switch(0, <<W(1)>>, << <<1>> >>,
                <<AbstractAnonCall(<<W(0)>>, 2, 0,
                     <<Instance(2),
                       Switch(1, <<W(0)>>, << <<1>>, <<2>> >>,
                              <<AbstractGateCall("inst", <<>>),
                                AbstractGateCall("inst", <<>>)>>)>>)>>),
         Instance(3)>> >>

InitPool == InitWith(PlaintextBackend) /\ pc = "running" /\ arg = Some(<<>>)

NextPool ==
    \/ \E inst \in Pools(2) :
          nmsgs < 2 /\ IngestMessage(InstanceMsg(H(3), Bytes(inst)))
    \/ \E wit \in Pools(1) :
          nmsgs < 2 /\ IngestMessage(WitnessMsg(H(3), Bytes(wit)))
    \/ \E i \in 1..Len(PoolCircuits) :
          /\ nmsgs = 2
          /\ IngestMessage(RelationMsg(H(3), FALSE, PoolFunctions, PoolCircuits[i]))
    \/ nmsgs = 3 /\ GetViolations

SpecPool == InitPool /\ [][NextPool]_vars

(* The values of the messages of one type, in the order of arrival. *)
MessageValues(msg) ==
    IF msg.type = "Instance"
    THEN [i \in 1..Len(msg.common_inputs) |-> FromBytesLE(msg.common_inputs[i])]
    ELSE [i \in 1..Len(msg.short_witness) |-> FromBytesLE(msg.short_witness[i])]

RECURSIVE Arrived(_, _)
Arrived(msgs, type) ==
    IF Len(msgs) = 0 THEN <<>>
    ELSE (IF Head(msgs).type = type THEN MessageValues(Head(msgs)) ELSE <<>>)
         \o Arrived(Tail(msgs), type)

NoSwitchUpTo(i) ==
    \A j \in 1..i : trace[j].e = "gate" => trace[j].k # "Switch"

(* The position of an Instance gate among the Instance gates executed. *)
Rank(i, kind) == Cardinality({j \in Gates : trace[j].k = kind /\ j < i}) + 1

NotEnoughInstance == Some("Not enough instance to consume")

PoolKind(k) == IF k = 1 THEN "Instance" ELSE "Witness"

PoolAt(i, k) == IF k = 1 THEN trace[i].f.instances ELSE trace[i].f.witnesses

(* The count a branch declares for pool k, and the largest over a Switch. *)
Declared(branch, k) ==
    IF branch.k = "AbstractGateCall"
    THEN (IF k = 1 THEN known_functions[branch.name].instance_nbr
          ELSE known_functions[branch.name].witness_nbr)
    ELSE (IF k = 1 THEN branch.instance_count ELSE branch.witness_count)

MaxDeclared(gate, k) ==
    CHOOSE m \in {0} \cup {Declared(gate.branches[b], k) : b \in 1..Len(gate.branches)} :
        \A b \in 1..Len(gate.branches) : Declared(gate.branches[b], k) <= m

NamesKnown(gate) ==
    \A b \in 1..Len(gate.branches) :
        gate.branches[b].k = "AbstractGateCall" =>
            gate.branches[b].name \in DOMAIN known_functions

(* What event i takes from the caller's pool k: one value for a gate of   *)
(* the pool outside every Switch branch that finds the pool nonempty, the *)
(* reserved values for a Switch outside every Switch branch.              *)
TakenBy(i, k) ==
    IF trace[i].e # "gate" \/ trace[i].f.weight # None THEN 0
    ELSE IF trace[i].k = PoolKind(k)
    THEN (IF PoolAt(i, k) # <<>> THEN 1 ELSE 0)
    ELSE IF trace[i].k = "Switch" /\ NamesKnown(trace[i].f.gate)
    THEN Min(Len(PoolAt(i, k)), MaxDeclared(trace[i].f.gate, k))
    ELSE 0

RECURSIVE Taken(_, _)
Taken(n, k) == IF n = 0 THEN 0 ELSE Taken(n - 1, k) + TakenBy(n, k)

Executed(kind) == Cardinality({i \in Gates : trace[i].k = kind})

(* C14 as stated: after a relation evaluated without error, the number of *)
(* values removed from the instance pool is the number of Instance gates  *)
(* executed and the number removed from the witness pool is the number of *)
(* Witness gates executed, Switch gates included.                         *)
C14_RemovedEqualsExecuted ==
    (nmsgs = 3 /\ pc # "aborted" /\ found_error = None) =>
        /\ Len(Arrived(arg[1], "Instance")) - Len(instance_queue)
              = Executed("Instance")
        /\ Len(Arrived(arg[1], "Witness")) - Len(witness_queue)
              = Executed("Witness")

(* C14 amended: after a relation, the number of values removed from a     *)
(* pool is the number of gates of that pool executed outside every Switch *)
(* branch on a nonempty pool, plus, for each Switch executed outside      *)
(* every Switch branch, the smaller of the pool length at the Switch and  *)
(* the largest count its branches declare; what the gates of the branches *)
(* consume does not count.                                                *)
C14_RemovedEqualsTakenOutsideBranches ==
    nmsgs = 3 =>
        /\ Len(Arrived(arg[1], "Instance")) - Len(instance_queue)
              = Taken(Len(trace), 1)
        /\ Len(Arrived(arg[1], "Witness")) - Len(witness_queue)
              = Taken(Len(trace), 2)

C14_Witness ==
    /\ nmsgs = 3 /\ pc # "aborted" /\ found_error = None
    /\ \E i \in Gates :
          /\ trace[i].k = "Switch" /\ trace[i].f.weight = None
          /\ MaxDeclared(trace[i].f.gate, 1) = 2
          /\ Len(trace[i].f.instances) >= 2
    /\ Taken(Len(trace), 1) = 2
    /\ Executed("Instance") = 1
    /\ Taken(Len(trace), 2) = 1
    /\ Executed("Witness") = 0

DoneIdx(i) == CHOOSE j \in DonesOf(i) : \A k \in DonesOf(i) : j <= k

(* The events of the execution of gate i. *)
Inside(i) == IF Succeeded(i) THEN (i + 1)..(DoneIdx(i) - 1) ELSE (i + 1)..Len(trace)

(* The first gates of the branch bodies of Switch i. *)
BranchStarts(i) ==
    {j \in Inside(i) \cap Gates :
        trace[j].f.depth = trace[i].f.depth + 1 /\ trace[j - 1].e = "enter"}

ReservedCount(i, k) == Min(Len(PoolAt(i, k)), MaxDeclared(trace[i].f.gate, k))

DonePool(i, k) == IF k = 1 THEN DoneOf(i).instances ELSE DoneOf(i).witnesses

(* C15 -- Switch reservation: a Switch whose named branches are known     *)
(* takes from the front of each pool the smaller of the pool length and   *)
(* the largest count its branches declare; every branch body starts on    *)
(* exactly those values, in order, whatever the branches before it        *)
(* consumed; after the Switch the pool of the caller is the rest of the   *)
(* pool at entry, and it is what the evaluator keeps when a Switch of the *)
(* relation fails in a branch.                                            *)
C15_SwitchReservation ==
    \A i \in Gates : \A k \in 1..2 :
        (trace[i].k = "Switch" /\ NamesKnown(trace[i].f.gate)) =>
            /\ \A j \in BranchStarts(i) :
                  PoolAt(j, k) = SubSeq(PoolAt(i, k), 1, ReservedCount(i, k))
            /\ Succeeded(i) =>
                  DonePool(i, k) = SubSeq(PoolAt(i, k), ReservedCount(i, k) + 1,
                                          Len(PoolAt(i, k)))
            /\ (~Succeeded(i) /\ trace[i].f.depth = 0) =>
                  (IF k = 1 THEN instance_queue ELSE witness_queue)
                      = SubSeq(PoolAt(i, k), ReservedCount(i, k) + 1,
                               Len(PoolAt(i, k)))

C15_Witness ==
    \E i \in Gates :
        /\ trace[i].k = "Switch" /\ Succeeded(i)
        /\ Len(trace[i].f.instances) = 3
        /\ ReservedCount(i, 1) = 1
        /\ DoneOf(i).instances = SubSeq(trace[i].f.instances, 2, 3)
        /\ \E j1 \in BranchStarts(i), j2 \in BranchStarts(i) :
              /\ j1 < j2
              /\ trace[j1].k = "Instance" /\ trace[j2].k = "Instance"
              /\ trace[j1].f.instances = <<trace[i].f.instances[1]>>
              /\ trace[j2].f.instances = <<trace[i].f.instances[1]>>

-----------------------------------------------------------------------------
(* Specification SpecVerifier: the evaluator as a verifier.  An Instance  *)
(* message and a Relation are ingested on the VerifierInterpreter, with   *)
(* no Witness message, then get_violations is called.  The relation is    *)
(* one of the circuits above or the example relation of the producers.    *)

EXAMPLE_MODULUS == 101

literal32(v) ==
    <<v % 256, (v \div 256) % 256, (v \div 65536) % 256, (v \div 16777216) % 256>>

(* the field order with its first byte decremented *)
encode_negative_one(header) ==
    [header.field_characteristic EXCEPT ![1] = @ - 1]

example_header == Header(literal32(EXAMPLE_MODULUS), 1)

example_instance ==
    InstanceMsg(example_header, <<literal32(25), literal32(0), literal32(1)>>)

example_relation ==
    RelationMsg(example_header, FALSE,
      << Function("com.example::mul", 1, 2, 0, 0, <<Mul(0, 1, 2)>>) >>,
      << Witness(1),
         Switch(1, <<W(0), W(2), W(4), W(5), W(6), W(9), W(10), W(11)>>,
                << <<3>>, <<5>> >>,
           << AbstractAnonCall(<<W(1)>>, 3, 3,
                << Instance(0), Witness(1),
                   Call("com.example::mul", <<W(2)>>, <<W(8), W(8)>>),
                   Call("com.example::mul", <<W(3)>>, <<W(1), W(1)>>),
                   Add(4, 2, 3), Witness(9), AssertZero(9), Instance(6),
                   AssertZero(6), Instance(7), Witness(5) >>),
              AbstractAnonCall(<<W(1)>>, 3, 2,
                << Instance(0),
                   Call("com.example::mul", <<W(1)>>, <<W(8), W(0)>>),
                   Witness(2), Mul(3, 1, 2), Add(4, 2, 3), Instance(5),
                   Instance(6), Witness(7), AssertZero(5), AssertZero(0) >>) >>),
         Constant(3, encode_negative_one(example_header)),
         Call("com.example::mul", <<W(7)>>, <<W(3), W(0)>>),
         Add(8, 6, 7),
         Free(0, Some(7)),
         AssertZero(8),
         For("i", 0, 20,
             IterExprAnonCall(<<Single(Plus("i", 12))>>,
                              <<Single(Plus("i", 10)), Single(Plus("i", 11))>>,
                              0, 0, <<Add(0, 1, 2)>>)),
         MulConstant(33, 32, encode_negative_one(example_header)),
         Add(34, 9, 33),
         AssertZero(34),
         For("i", 35, 50,
             IterExprCall("com.example::mul", <<Single(I("i"))>>,
                          <<Single(IterExprSub(I("i"), IterExprConst(1))),
                            Single(IterExprSub(I("i"), IterExprConst(2)))>>)),
         Free(8, Some(50)) >>)

InitVerifier == InitWith(VerifierInterpreter) /\ pc = "running" /\ arg = Some(<<>>)

NextVerifier ==
    \/ \E p \in GatePrimes, inst \in Pools(2) :
          nmsgs = 0 /\ IngestMessage(InstanceMsg(H(p), Bytes(inst)))
    \/ nmsgs = 0 /\ IngestMessage(example_instance)
    \/ \E bool \in BOOLEAN, i \in 1..Len(GateCircuits) :
          /\ nmsgs = 1 /\ modulus # EXAMPLE_MODULUS
          /\ bool => modulus = 2
          /\ IngestMessage(RelationMsg(H(modulus), bool, GateFunctions,
                                       GateCircuits[i]))
    \/ \E i \in 1..Len(PoolCircuits) :
          /\ nmsgs = 1 /\ modulus # EXAMPLE_MODULUS
          /\ IngestMessage(RelationMsg(H(modulus), FALSE, PoolFunctions,
                                       PoolCircuits[i]))
    \/ /\ nmsgs = 1 /\ modulus = EXAMPLE_MODULUS
       /\ IngestMessage(example_relation)
    \/ nmsgs = 2 /\ GetViolations

SpecVerifier == InitVerifier /\ [][NextVerifier]_vars

MissingWitness(i) ==
    trace[i].e = "gate" /\ trace[i].k = "Witness" /\ trace[i].f.witnesses = <<>>

(* C16 -- the verifier role: on a backend that accepts a missing witness  *)
(* and whose assert_zero always succeeds, a Witness gate executed on the  *)
(* empty witness pool does not fail in the interpreter: the wire the      *)
(* backend returns is bound to its output (or the binding fails because   *)
(* the output is bound already); no assertion fails, no error comes from  *)
(* a Witness gate or an assertion, nothing aborts, and the example        *)
(* instance and relation without a witness message yield no violation.    *)
C16_VerifierRole ==
    /\ pc # "aborted"
    /\ \A i \in Gates :
          MissingWitness(i) =>
             /\ i < Len(trace)
             /\ trace[i + 1].e = "set" /\ trace[i + 1].id = trace[i].id
             /\ Succeeded(i) =>
                   /\ DoneOf(i).scope = MapInsert(trace[i].f.scope, trace[i].id, 0)
                   /\ DoneOf(i).witnesses = <<>>
             /\ ~Succeeded(i) => found_error = DuplicateMessage(trace[i].id)
    /\ \A i \in Assertions : ~trace[i].f.is_err
    /\ found_error # None =>
          /\ trace # <<>>
          /\ trace[Len(trace)].e # "assert"
          /\ trace[Len(trace)].e = "gate" => trace[Len(trace)].k # "Witness"
    /\ (pc = "consumed" /\ arg = Some(<<example_instance, example_relation>>)) =>
          violations = Some(<<>>)

C16_Witness ==
    /\ pc = "consumed"
    /\ arg = Some(<<example_instance, example_relation>>)
    /\ violations = Some(<<>>)
    /\ witness_queue = <<>>
    /\ \E i \in Gates : MissingWitness(i) /\ Succeeded(i) /\ trace[i].f.depth = 0
    /\ \E i \in Gates : MissingWitness(i) /\ Succeeded(i) /\ trace[i].f.depth > 0
    /\ Assertions # {}

(* C17 -- on the plaintext backend a Witness gate executed when no        *)
(* witness value is available, the pool being empty or a Switch branch    *)
(* having consumed what was reserved, gives an error result that is       *)
(* recorded and reported as a violation; the process is not aborted.      *)
C17_MissingWitnessIsViolation ==
    /\ \A i \in Gates :
          MissingWitness(i) => (pc # "aborted" /\ found_error # None)
    /\ (violations # None /\ \E i \in Gates : MissingWitness(i)) =>
          \E v \in 1..Len(violations[1]) : Some(violations[1][v]) = found_error

CallOuts(i) == Len(expand_wirelist(trace[i].f.gate.output_wires))
CallIns(i) == Len(expand_wirelist(trace[i].f.gate.input_wires))
Callee(i) == known_functions[trace[i].f.gate.name]

(* Gate i failed with this message before doing anything. *)
FailedAtOnce(i, message) ==
    /\ i = Len(trace)
    /\ found_error = Some(message)
    /\ Len(ops) = trace[i].f.ops
    /\ trace[i].f.depth = 0 =>
          /\ values = trace[i].f.scope
          /\ instance_queue = trace[i].f.instances
          /\ witness_queue = trace[i].f.witnesses

(* C18 -- arity error on Call: a Call of a known function whose expanded  *)
(* output list has not output_count wires fails with Wrong number of      *)
(* output variables in call to function name (Expected n / Got m).; one   *)
(* with the right outputs and not input_count inputs fails with the same  *)
(* message for input variables; in both cases no gate of the body is      *)
(* executed, no wire is read or bound, the backend is not called, and the *)
(* scope of the caller and both pools are as before the Call.             *)
C18_CallArityError ==
    \A i \in Gates :
        (trace[i].k = "Call" /\ trace[i].f.gate.name \in DOMAIN known_functions) =>
            /\ CallOuts(i) # Callee(i).output_count =>
                  FailedAtOnce(i,
                      "Wrong number of output variables in call to function "
                      \o trace[i].f.gate.name \o " (Expected "
                      \o ToString(Callee(i).output_count) \o " / Got "
                      \o ToString(CallOuts(i)) \o ").")
            /\ (CallOuts(i) = Callee(i).output_count
                   /\ CallIns(i) # Callee(i).input_count) =>
                  FailedAtOnce(i,
                      "Wrong number of input variables in call to function "
                      \o trace[i].f.gate.name \o " (Expected "
                      \o ToString(Callee(i).input_count) \o " / Got "
                      \o ToString(CallIns(i)) \o ").")

C18_Witness ==
    \E i \in Gates :
        /\ trace[i].k = "Call"
        /\ CallOuts(i) = Callee(i).output_count
        /\ CallIns(i) = 3 /\ Callee(i).input_count = 2
        /\ trace[i].f.depth = 0
        /\ trace[i].f.ops > 0
        /\ instance_queue # <<>>
        /\ DOMAIN values = {0, 1, 2}
        /\ i = Len(trace)
        /\ found_error # None

-----------------------------------------------------------------------------
(* Specification SpecTable: up to MaxMessages Relation messages, in any   *)
(* order, that declare functions and invoke functions by name, in the     *)
(* field of three elements on the plaintext backend.  Every relation      *)
(* frees the wires it binds.  The messages ingested are kept in arg.      *)

F_one == Function("one", 1, 0, 0, 0, <<Constant(0, <<1>>)>>)

F_sq == Function("sq", 1, 1, 0, 0, <<Call("mul", <<W(0)>>, <<W(1), W(1)>>)>>)

TableMessages ==
    << RelationMsg(H(3), FALSE, <<F_mul>>, <<Constant(0, <<2>>), Free(0, None)>>),
       RelationMsg(H(3), FALSE, <<>>,
                   <<Constant(0, <<1>>), Call("mul", <<W(1)>>, <<W(0), W(0)>>),
                     Free(0, Some(1))>>),
       \* the first gate calls a function of this relation
       RelationMsg(H(3), FALSE, <<F_sq, F_one>>,
                   <<Call("one", <<W(0)>>, <<>>), Free(0, None)>>),
       \* a function whose body calls a function
       RelationMsg(H(3), FALSE, <<>>,
                   <<Constant(0, <<1>>), Call("sq", <<W(1)>>, <<W(0)>>),
                     Free(0, Some(1))>>),
       \* a named For body, and one in a loop without iterations
       RelationMsg(H(3), FALSE, <<>>,
                   <<For("i", 0, 1, IterExprCall("one", <<Single(I("i"))>>, <<>>)),
                     Free(0, Some(1))>>),
       RelationMsg(H(3), FALSE, <<>>,
                   <<For("i", 1, 0, IterExprCall("none", <<Single(I("i"))>>, <<>>)),
                     Constant(0, <<1>>), Free(0, None)>>),
       \* a named Switch branch, and one in a Switch without cases
       RelationMsg(H(3), FALSE, <<>>,
                   <<Constant(0, <<1>>),
                     Switch(0, <<W(1)>>, << <<1>> >>,
                            <<AbstractGateCall("one", <<>>)>>),
                     Free(0, Some(1))>>),
       RelationMsg(H(3), FALSE, <<>>,
                   <<Constant(0, <<1>>),
                     Switch(0, <<>>, <<>>, <<AbstractGateCall("one", <<>>)>>),
                     Free(0, None)>>) >>

InitTable == InitWith(PlaintextBackend) /\ pc = "running" /\ arg = Some(<<>>)

NextTable ==
    \E i \in 1..Len(TableMessages) :
        nmsgs < MaxMessages /\ IngestMessage(TableMessages[i])

SpecTable == InitTable /\ [][NextTable]_vars

(* The names of the functions the Relation messages declare. *)
DeclaredNames(msgs) ==
    UNION {{msgs[m].functions[f].name : f \in 1..Len(msgs[m].functions)} :
              m \in {n \in 1..Len(msgs) : msgs[n].type = "Relation"}}

(* The names gate g resolves when it is executed. *)
BranchNames(g) ==
    {g.branches[b].name :
        b \in {c \in 1..Len(g.branches) : g.branches[c].k = "AbstractGateCall"}}

NamesOf(g) ==
    IF g.k = "Call" THEN {g.name}
    ELSE IF g.k = "For" /\ g.body.k = "IterExprCall" /\ g.start_val <= g.end_val
    THEN {g.body.name}
    ELSE IF g.k = "Switch" THEN BranchNames(g)
    ELSE {}

(* Gate i failed on a name: nothing follows it but, in a For, the start   *)
(* of the first iteration.                                                *)
FailsUnresolved(i) ==
    /\ found_error = Some("Unknown function")
    /\ \/ i = Len(trace)
       \/ trace[i].k = "For" /\ i + 1 = Len(trace) /\ trace[i + 1].e = "iter"

(* C19 -- the function table: a Call, a named For body that is executed   *)
(* or the named branches of a Switch resolve exactly when their names are *)
(* declared by the Relation being ingested or by a Relation ingested      *)
(* before it, whatever the position of the gate in the relation; a gate   *)
(* with a name that is not declared fails with Unknown function; the      *)
(* table holds declared functions only, and all of them as long as no     *)
(* error is recorded.                                                     *)
C19_FunctionTable ==
    /\ \A i \in Gates :
          NamesOf(trace[i].f.gate) # {} =>
             (FailsUnresolved(i)
                <=> ~(NamesOf(trace[i].f.gate) \subseteq DeclaredNames(arg[1])))
    /\ DOMAIN known_functions \subseteq DeclaredNames(arg[1])
    /\ found_error = None => DOMAIN known_functions = DeclaredNames(arg[1])

C19_Witness ==
    /\ Len(arg[1]) = 3
    /\ arg[1][1].functions = <<F_mul>>
    /\ arg[1][2].functions = <<F_sq, F_one>>
    /\ arg[1][3].functions = <<>>
    /\ found_error = None
    /\ \E i \in Gates, j \in Gates :
          /\ trace[i].k = "Call" /\ trace[i].f.gate.name = "sq" /\ Succeeded(i)
          /\ trace[j].k = "Call" /\ trace[j].f.gate.name = "mul" /\ Succeeded(j)
          /\ trace[j].f.depth = 1

Invocations == {i \in Gates : trace[i].k \in {"Call", "AnonCall"}}

Enters(i) == {j \in Inside(i) : trace[j].e = "enter"}

(* The scope the body of invocation i starts in. *)
EnterOf(i) == trace[CHOOSE j \in Enters(i) : \A k \in Enters(i) : j <= k].f

BodyDones(i) ==
    {j \in Inside(i) :
        trace[j].e = "done" /\ trace[j].f.depth = trace[i].f.depth + 1}

(* The scope the body of invocation i ends in. *)
BodyEnd(i) ==
    IF BodyDones(i) = {} THEN EnterOf(i).scope
    ELSE trace[CHOOSE j \in BodyDones(i) : \A k \in BodyDones(i) : k <= j].f.scope

InvOuts(i) == expand_wirelist(trace[i].f.gate.output_wires)
InvIns(i) == expand_wirelist(trace[i].f.gate.input_wires)

(* C20 -- calling convention and isolation: the body of a Call or         *)
(* AnonCall with n outputs and m inputs starts in a scope that holds      *)
(* exactly n+i -> the value of the i-th input wire of the caller, for i   *)
(* in 0..m-1; after a successful invocation the scope of the caller is    *)
(* the scope before the invocation plus exactly the j-th output wire ->   *)
(* the value of local wire j at the end of the body, for j in 0..n-1,     *)
(* whatever the body bound or freed.                                      *)
C20_CallingConvention ==
    \A i \in Invocations :
        /\ Enters(i) # {} =>
              EnterOf(i).scope =
                 [x \in Len(InvOuts(i))..(Len(InvOuts(i)) + Len(InvIns(i)) - 1) |->
                     trace[i].f.scope[InvIns(i)[x - Len(InvOuts(i)) + 1]]]
        /\ Succeeded(i) =>
              /\ Enters(i) # {}
              /\ DOMAIN DoneOf(i).scope =
                     DOMAIN trace[i].f.scope \cup RangeOf(InvOuts(i))
              /\ \A x \in DOMAIN trace[i].f.scope :
                     DoneOf(i).scope[x] = trace[i].f.scope[x]
              /\ \A j \in 1..Len(InvOuts(i)) :
                     DoneOf(i).scope[InvOuts(i)[j]] = BodyEnd(i)[j - 1]

C20_Witness ==
    \E i \in Invocations :
        /\ Succeeded(i)
        /\ trace[i].k = "AnonCall"
        /\ Len(InvOuts(i)) = 2 /\ Len(InvIns(i)) = 2
        /\ DOMAIN trace[i].f.scope = {0, 1, 7}
        /\ DOMAIN EnterOf(i).scope = {2, 3}
        /\ DOMAIN BodyEnd(i) = {0, 1, 3, 7}
        /\ BodyEnd(i)[7] # trace[i].f.scope[7]
        /\ DOMAIN DoneOf(i).scope = {0, 1, 2, 3, 7}

(* The starts of the bodies gate i invokes itself, in order. *)
DirectEnters(i) ==
    {j \in Enters(i) : trace[j].f.depth = trace[i].f.depth + 1}

(* Whether the body started at j, invoked by gate i, is that of a named   *)
(* function: the b-th body of a Switch is the one of its b-th branch.     *)
BodyIsNamed(i, j) ==
    \/ trace[i].k = "Call"
    \/ trace[i].k = "For" /\ trace[i].f.gate.body.k = "IterExprCall"
    \/ /\ trace[i].k = "Switch"
       /\ trace[i].f.gate.branches[Cardinality({e \in DirectEnters(i) : e <= j})].k
             = "AbstractGateCall"

(* The iterator environment a gate hands to an anonymous body it invokes; *)
(* a For adds its own iterator.                                           *)
HandedOver(i, j) ==
    IF trace[i].k = "For"
    THEN /\ DOMAIN trace[j].f.known_iterators
               = DOMAIN trace[i].f.known_iterators
                 \cup {trace[i].f.gate.iterator_name}
         /\ \A n \in DOMAIN trace[i].f.known_iterators
                      \ {trace[i].f.gate.iterator_name} :
               trace[j].f.known_iterators[n] = trace[i].f.known_iterators[n]
    ELSE trace[j].f.known_iterators = trace[i].f.known_iterators

(* C21 -- iterator propagation: the body of a named function, invoked by  *)
(* a Call, a For or a Switch branch, starts with the empty iterator       *)
(* environment; an anonymous body starts with the environment of the gate *)
(* that invokes it (with the iterator of the For, for a For body).        *)
C21_IteratorPropagation ==
    \A i \in Gates : \A j \in DirectEnters(i) :
        IF BodyIsNamed(i, j)
        THEN trace[j].f.known_iterators = EmptyMap
        ELSE HandedOver(i, j)

C21_Witness ==
    \E i \in Gates, c \in Gates, a \in Gates, sw \in Gates :
        /\ trace[i].k = "For" /\ Succeeded(i)
        /\ trace[c].k = "Call" /\ trace[a].k = "AnonCall" /\ trace[sw].k = "Switch"
        /\ {c, a, sw} \subseteq Inside(i)
        /\ DOMAIN trace[c].f.known_iterators = {"i"}
        /\ \E j \in DirectEnters(c) : trace[j].f.known_iterators = EmptyMap
        /\ \E j \in DirectEnters(a) : DOMAIN trace[j].f.known_iterators = {"i"}
        /\ \E j \in DirectEnters(sw) : trace[j].f.known_iterators = EmptyMap
        /\ \E j \in DirectEnters(sw) : DOMAIN trace[j].f.known_iterators = {"i"}

Fors == {i \in Gates : trace[i].k = "For"}

Iterations(g) == IF g.end_val < g.start_val THEN 0 ELSE g.end_val - g.start_val + 1

(* The value of the iterator of For i in the body started at j. *)
IterationOf(i, j) ==
    trace[i].f.gate.start_val + Cardinality({e \in DirectEnters(i) : e < j})

IterationEnv(i, j) ==
    MapInsert(trace[i].f.known_iterators, trace[i].f.gate.iterator_name,
              IterationOf(i, j))

(* C22 -- For(iter, start, end, body): the body is executed for iter =    *)
(* start, start+1, ..., end in this order, max(0, end-start+1) times when *)
(* the loop completes; the output and input lists of each execution are   *)
(* the lists of the body evaluated with that value of iter; after a loop  *)
(* that completes, iter has no binding and the other iterators are as     *)
(* before the loop.                                                       *)
C22_ForIterations ==
    \A i \in Fors :
        /\ Cardinality(DirectEnters(i)) <= Iterations(trace[i].f.gate)
        /\ \A j \in DirectEnters(i) :
              /\ trace[j].f.output_list =
                    evaluate_iterexpr_list(trace[i].f.gate.body.outputs,
                                           IterationEnv(i, j))
              /\ trace[j].f.input_list =
                    evaluate_iterexpr_list(trace[i].f.gate.body.inputs,
                                           IterationEnv(i, j))
              /\ trace[i].f.gate.body.k = "IterExprAnonCall" =>
                    trace[j].f.known_iterators = IterationEnv(i, j)
        /\ Succeeded(i) =>
              /\ Cardinality(DirectEnters(i)) = Iterations(trace[i].f.gate)
              /\ DoneOf(i).known_iterators =
                    MapRemove(trace[i].f.known_iterators,
                              trace[i].f.gate.iterator_name)

C22_Witness ==
    \E i \in Fors, j1 \in Gates, j2 \in Gates :
        /\ Succeeded(i)
        /\ DirectEnters(i) = {j1 - 1, j2 - 1}
        /\ trace[j1 - 1].f.input_list = <<0>> /\ trace[j1 - 1].f.output_list = <<2>>
        /\ trace[j2 - 1].f.input_list = <<1>> /\ trace[j2 - 1].f.output_list = <<3>>
        /\ j1 < j2
        /\ trace[j1].f.known_iterators = [n \in {"i"} |-> 0]
        /\ trace[j2].f.known_iterators = [n \in {"i"} |-> 1]

-----------------------------------------------------------------------------
(* Specification SpecStream: the message stream of Spec, with the         *)
(* messages ingested kept in arg.                                         *)

SpecStream == InitTable /\ [][Next]_vars

(* The message a step ingests, when the step ingests one that is not      *)
(* discarded because of an earlier error.                                 *)
Ingests(type) ==
    /\ nmsgs' = nmsgs + 1
    /\ found_error = None
    /\ arg'[1][Len(arg'[1])].type = type

Ingested == arg'[1][Len(arg'[1])]

BadField(header) ==
    FromBytesLE(header.field_characteristic) = 0 \/ header.field_degree # 1

(* C23 -- set_field of the plaintext backend fails if and only if the     *)
(* modulus is zero (Modulus cannot be zero.) or else the degree is not 1  *)
(* (Field should be of degree 1); when it fails no gate of the relation   *)
(* is executed, set_field is the only backend call, and the scope, the    *)
(* pools, the function table and the gate notice are left as they were.   *)
C23_SetFieldRejects ==
    [][ Ingests("Relation") =>
          /\ found_error' = Some("Modulus cannot be zero.")
                <=> FromBytesLE(Ingested.header.field_characteristic) = 0
          /\ found_error' = Some("Field should be of degree 1")
                <=> /\ FromBytesLE(Ingested.header.field_characteristic) # 0
                    /\ Ingested.header.field_degree # 1
          /\ BadField(Ingested.header) =>
                /\ trace' = <<>>
                /\ ops' = <<"set_field">>
                /\ values' = values
                /\ instance_queue' = instance_queue
                /\ witness_queue' = witness_queue
                /\ known_functions' = known_functions
                /\ verified_at_least_one_gate' = verified_at_least_one_gate
      ]_vars

C23_Witness ==
    /\ found_error = Some("Field should be of degree 1")
    /\ Len(arg[1]) = 3
    /\ arg[1][3].type = "Relation" /\ arg[1][3].gates # <<>>
    /\ arg[1][3].header.field_degree = 2
    /\ trace = <<>>
    /\ instance_queue # <<>>
    /\ values # EmptyMap

-----------------------------------------------------------------------------
(* Specification SpecExp: one call of exp on the plaintext backend, for    *)
(* every modulus from 2 to MaxPrime (prime or not), every base below the   *)
(* modulus and every exponent from 1 to MaxExponent.  The boolean flag is  *)
(* drawn only in the field of two elements.                                *)

MaxExponent == 6

InitExp ==
    /\ InitWith(PlaintextBackend)
    /\ pc = "exp"
    /\ \E p \in 2..MaxPrime, bool \in BOOLEAN :
          /\ bool => p = 2
          /\ \E b \in 0..(p - 1), e \in 1..MaxExponent :
                arg = Some([modulus |-> p, is_boolean |-> bool,
                            base |-> b, exponent |-> e])

Exponentiate ==
    /\ pc = "exp"
    /\ \E r \in {exp(FieldSet(backend, arg[1].modulus, arg[1].is_boolean),
                     arg[1].base, arg[1].exponent, arg[1].is_boolean)} :
          /\ result' = Some([status |-> r.status, w |-> r.w])
          /\ ops' = r.ops
          /\ backend' = r.backend
    /\ pc' = "powered"
    /\ UNCHANGED <<evaluator, violations, trace, nmsgs, arg>>

NextExp == Exponentiate

SpecExp == InitExp /\ [][NextExp]_vars

RECURSIVE Power(_, _)
Power(b, e) == IF e = 0 THEN 1 ELSE b * Power(b, e - 1)

(* C24: for every modulus p >= 2, base below p and exponent e >= 1, exp on *)
(* the plaintext backend returns base^e mod p and asks the backend only    *)
(* for copy and multiply, or, in a boolean field, only for copy and and.   *)
C24_ExpIsModularPower ==
    pc = "powered" =>
        /\ result[1].status = "ok"
        /\ result[1].w = Power(arg[1].base, arg[1].exponent) % arg[1].modulus
        /\ ~arg[1].is_boolean => OpsAmong({"copy", "multiply"})
        /\ arg[1].is_boolean => OpsAmong({"copy", "and"})
        /\ ops # <<>>

(* An odd exponent above one in a composite modulus, with a result that    *)
(* differs from the base times itself.                                     *)
C24_Witness ==
    /\ pc = "powered"
    /\ arg[1].modulus = 6 /\ arg[1].base = 5 /\ arg[1].exponent = 5
    /\ result[1].w = 5
    /\ Len(ops) = 4

NoGateNotice == "Did not receive any gate to verify."

(* C25: the flag verified_at_least_one_gate is raised exactly by the       *)
(* ingestion of a Relation message with a non-empty gate list whose field  *)
(* configuration succeeded, and is never lowered, also not by a later      *)
(* relation without gates; get_violations holds the notice "Did not        *)
(* receive any gate to verify." if and only if the flag is not raised.     *)
C25_NoGateNotice ==
    [][ /\ verified_at_least_one_gate' <=>
              \/ verified_at_least_one_gate
              \/ /\ Ingests("Relation")
                 /\ Ingested.gates # <<>>
                 /\ ~BadField(Ingested.header)
        /\ violations' # None =>
              ((\E i \in 1..Len(violations'[1]) : violations'[1][i] = NoGateNotice)
                  <=> ~verified_at_least_one_gate')
      ]_vars

(* A relation with gates, then a relation without, then get_violations. *)
C25_Witness ==
    /\ pc = "consumed"
    /\ Len(arg[1]) = 2
    /\ arg[1][1].type = "Relation" /\ arg[1][1].gates # <<>>
    /\ arg[1][2].type = "Relation" /\ arg[1][2].gates = <<>>
    /\ violations = Some(<<>>)

(* C26 as stated: the top-level scope is created on entry to a Relation    *)
(* message, so the first gate of every Relation message runs in a scope    *)
(* without any binding.                                                    *)
C26_FreshTopLevelScope ==
    (trace # <<>> /\ trace[1].e = "gate") => trace[1].f.scope = EmptyMap

(* C26 amended: the evaluator keeps one top-level scope for its whole      *)
(* life.  The first gate of a Relation message runs in the scope the       *)
(* previous message left, a relation that succeeds leaves the scope of its *)
(* last gate, and Instance and Witness messages leave the scope alone; a   *)
(* wire bound and not freed by one Relation message is bound in the next.  *)
C26_TopLevelScopePersists ==
    [][ /\ (Ingests("Relation") /\ trace' # <<>>) =>
              /\ trace'[1].e = "gate"
              /\ trace'[1].f.depth = 0
              /\ trace'[1].f.scope = values
        /\ (Ingests("Relation") /\ trace' # <<>> /\ found_error' = None
                /\ pc' = "running") =>
              /\ trace'[Len(trace')].e = "done"
              /\ trace'[Len(trace')].f.scope = values'
        /\ (Ingests("Instance") \/ Ingests("Witness")) => values' = values
      ]_vars

(* A relation binds wire 4 and ends; the next relation copies wire 4 to    *)
(* wire 5 and frees both.                                                  *)
C26_Witness ==
    /\ Len(arg[1]) = 2
    /\ arg[1][1].type = "Relation" /\ arg[1][2].type = "Relation"
    /\ arg[1][2].gates = <<Copy(5, 4), Free(4, Some(5))>>
    /\ found_error = None
    /\ trace # <<>>
    /\ 4 \in DOMAIN trace[1].f.scope
    /\ values = EmptyMap

-----------------------------------------------------------------------------
(* The validator (consumers/validator.rs).  Its messages carry assigned    *)
(* variables: an Instance or Witness message is a list of Assignment, and  *)
(* a Relation is a list of primitive gates.  status is "ok" until a slice  *)
(* of a value runs out of range, which panics.                             *)

Assignment(id, value) == [id |-> id, value |-> value]

Validator_new(as_prover) ==
    [as_prover |-> as_prover, variables |-> EmptyMap, got_header |-> FALSE,
     field_characteristic |-> 0, field_degree |-> 0, field_bytelen |-> 0,
     violations |-> <<>>, status |-> "ok", msg |-> ""]

violate(v, msg) == [v EXCEPT !.violations = Append(@, msg)]

Validator_ingest_header_2(v2) ==
    IF v2.field_degree = 0 THEN violate(v2, "field_degree must be >= 1") ELSE v2

Validator_ingest_header_1(v1, header) ==
    IF v1.field_degree # header.field_degree
    THEN violate(v1, "The field_degree is not consistent accross headers.")
    ELSE v1

Validator_ingest_header(v, header) ==
    IF ~IsOk(v) THEN v
    ELSE IF v.got_header
    THEN Validator_ingest_header_1(
            IF v.field_characteristic # FromBytesLE(header.field_characteristic)
            THEN violate(v, "The field_characteristic field is not consistent accross headers.")
            ELSE v,
            header)
    ELSE Validator_ingest_header_2(
            [(IF FromBytesLE(header.field_characteristic) <= 1
              THEN violate(v, "The field_characteristic should be > 1")
              ELSE v)
                EXCEPT !.got_header = TRUE,
                       !.field_characteristic = FromBytesLE(header.field_characteristic),
                       !.field_bytelen = Len(header.field_characteristic),
                       !.field_degree = header.field_degree])

(* self.variables.entry(id).or_insert(Undefined): the status read, and the *)
(* validator the read leaves.                                              *)
status(v, id) == IF id \in DOMAIN v.variables THEN v.variables[id] ELSE "Undefined"

Entered(v, id) ==
    IF id \in DOMAIN v.variables THEN v
    ELSE [v EXCEPT !.variables = MapInsert(@, id, "Undefined")]

set_status(v, id, st) ==
    IF ~IsOk(v) THEN v ELSE [v EXCEPT !.variables = MapInsert(@, id, st)]

CannotRepresent(name, int, characteristic) ==
    "The " \o name \o " cannot be represented in the field specified in Header ("
    \o ToString(int) \o " > " \o ToString(characteristic) \o ")."

(* for index in 0..self.field_degree *)
RECURSIVE ensure_value_in_field_1(_, _, _, _)
ensure_value_in_field_1(v, value, name, index) ==
    IF ~IsOk(v) \/ index >= v.field_degree THEN v
    ELSE IF (index + 1) * v.field_bytelen > Len(value)
    THEN Panic(v, "range end index out of range for slice")
    ELSE ensure_value_in_field_1(
            IF FromBytesLE(SubSeq(value, index * v.field_bytelen + 1,
                                  (index + 1) * v.field_bytelen))
                  > v.field_characteristic
            THEN violate(v, CannotRepresent(name,
                    FromBytesLE(SubSeq(value, index * v.field_bytelen + 1,
                                       (index + 1) * v.field_bytelen)),
                    v.field_characteristic))
            ELSE v,
            value, name, index + 1)

WrongLength(v, value, name) ==
    IF Len(value) # v.field_bytelen * v.field_degree
    THEN violate(v, "The length of " \o name \o " (" \o ToString(Len(value))
                    \o " bytes) should be the one of the field ("
                    \o ToString(v.field_bytelen) \o " x "
                    \o ToString(v.field_degree) \o ").")
    ELSE v

ensure_value_in_field(v, value, name) ==
    IF ~IsOk(v) THEN v
    ELSE ensure_value_in_field_1(
            WrongLength(IF Len(value) = 0
                        THEN violate(v, "The " \o name \o " is empty.")
                        ELSE v,
                        value, name),
            value, name, 0)

define_1(v1, id, name) ==
    IF ~IsOk(v1) THEN v1
    ELSE set_status(IF status(v1, id) # "Undefined"
                    THEN violate(v1, "Multiple definition of the " \o name)
                    ELSE v1,
                    id, "Defined")

define(v, id, value, name) == define_1(ensure_value_in_field(v, value, name), id, name)

UsedUnassigned(id) ==
    "The witness variable_" \o ToString(id) \o " is used but was not assigned a value"

(* A variant of ensure_defined that reports in either role. *)
ensure_defined_any_role(v, id) ==
    IF ~IsOk(v) THEN v
    ELSE IF status(v, id) = "Undefined"
    THEN violate(Entered(v, id), UsedUnassigned(id))
    ELSE v

ensure_defined(v, id) ==
    IF ~IsOk(v) THEN v
    ELSE IF status(v, id) = "Undefined" /\ v.as_prover
    THEN violate(Entered(v, id), UsedUnassigned(id))
    ELSE Entered(v, id)

(* self.ensure_defined(inp); self.set_status(inp, Used); *)
UseWire(v, id) == set_status(ensure_defined(v, id), id, "Used")

RECURSIVE DefineAll(_, _, _, _)
DefineAll(v, assigned, kind, used) ==
    IF ~IsOk(v) \/ assigned = <<>> THEN v
    ELSE DefineAll(
            IF used
            THEN set_status(define(v, Head(assigned).id, Head(assigned).value,
                                   "value of the " \o kind \o " variable_"
                                   \o ToString(Head(assigned).id)),
                            Head(assigned).id, "Used")
            ELSE define(v, Head(assigned).id, Head(assigned).value,
                        "value of the " \o kind \o " variable_"
                        \o ToString(Head(assigned).id)),
            Tail(assigned), kind, used)

Validator_ingest_instance(v, message) ==
    DefineAll(Validator_ingest_header(v, message.header),
              message.common_inputs, "instance", TRUE)

Validator_ingest_witness(v, message) ==
    DefineAll(
        Validator_ingest_header(
            IF ~v.as_prover
            THEN violate(v, "As verifier, got an unexpected Witness message.")
            ELSE v,
            message.header),
        message.short_witness, "witness", FALSE)

Validator_ingest_gate(v, gate) ==
    IF ~IsOk(v) THEN v
    ELSE CASE gate.k = "Constant" ->
                set_status(ensure_value_in_field(v, gate.value, "Gate::Constant constant"),
                           gate.out, "Used")
           [] gate.k = "AssertZero" -> UseWire(v, gate.inp)
           [] gate.k \in {"Copy", "Not"} ->
                set_status(UseWire(v, gate.inp), gate.out, "Used")
           [] gate.k \in {"Add", "Mul", "And", "Xor"} ->
                set_status(UseWire(UseWire(v, gate.left), gate.right), gate.out, "Used")
           [] gate.k \in {"AddConstant", "MulConstant"} ->
                set_status(
                    UseWire(ensure_value_in_field(v, gate.value,
                                "Gate::" \o gate.k \o "_" \o ToString(gate.out)),
                            gate.inp),
                    gate.out, "Used")

RECURSIVE Validator_ingest_gates(_, _)
Validator_ingest_gates(v, gates) ==
    IF ~IsOk(v) \/ gates = <<>> THEN v
    ELSE Validator_ingest_gates(Validator_ingest_gate(v, Head(gates)), Tail(gates))

Validator_ingest_relation(v, relation) ==
    Validator_ingest_gates(Validator_ingest_header(v, relation.header), relation.gates)

AccessedNotDefined(id) == "variable_" \o ToString(id) \o " was accessed but not defined."
DefinedNotUsed(id) == "variable_" \o ToString(id) \o " was defined but not used."

(* The variables get_violations has something to say about. *)
Unsettled(v) == {id \in DOMAIN v.variables : v.variables[id] # "Used"}

(* for (id, status) in self.variables.iter(): a HashMap is walked in an    *)
(* order of its own; order lists the unsettled variables in that order.    *)
RECURSIVE ensure_all_variables_used(_, _)
ensure_all_variables_used(v, order) ==
    IF order = <<>> THEN v
    ELSE ensure_all_variables_used(
            violate(v, IF v.variables[Head(order)] = "Undefined"
                       THEN AccessedNotDefined(Head(order))
                       ELSE DefinedNotUsed(Head(order))),
            Tail(order))

Validator_get_violations(v, order) == ensure_all_variables_used(v, order).violations

Orders(S) ==
    {o \in [1..Cardinality(S) -> S] : \A a, b \in 1..Cardinality(S) : o[a] = o[b] => a = b}

-----------------------------------------------------------------------------
(* Specification SpecValidator: a validator, as prover or as verifier, is  *)
(* given up to MaxMessages messages of the catalogue by ingest_instance,   *)
(* ingest_witness and ingest_relation, then asked for its violations.  The *)
(* field has three elements; the catalogue holds values below, equal to    *)
(* and above the characteristic, an empty value, wires read before any     *)
(* definition and wires defined and left unused.                           *)

ValidatorMessages ==
    << InstanceMsg(H(3), <<Assignment(0, <<1>>)>>),
       InstanceMsg(H(3), <<Assignment(0, <<3>>)>>),
       InstanceMsg(H(3), <<Assignment(1, <<4>>), Assignment(1, <<2>>)>>),
       WitnessMsg(H(3), <<Assignment(1, <<2>>)>>),
       WitnessMsg(H(3), <<Assignment(2, <<3>>)>>),
       WitnessMsg(H(3), <<Assignment(2, <<>>)>>),
       RelationMsg(H(3), FALSE, <<>>, <<Mul(3, 0, 1), AssertZero(3)>>),
       RelationMsg(H(3), FALSE, <<>>,
                   <<Constant(4, <<3>>), AddConstant(5, 4, <<3>>),
                     MulConstant(6, 5, <<5>>)>>),
       RelationMsg(H(3), FALSE, <<>>, <<Copy(4, 2)>>),
       RelationMsg(H(3), FALSE, <<>>,
                   <<Not(3, 0), Xor(4, 0, 7), And(5, 7, 4), Add(6, 5, 5)>>),
       RelationMsg(Header(<<3>>, 2), FALSE, <<>>, <<Constant(4, <<1>>)>>),
       RelationMsg(H(1), FALSE, <<>>, <<>>) >>

InitValidator ==
    /\ InitWith(PlaintextBackend)
    /\ pc = "validating"
    /\ arg = Some(<<>>)

(* Validator::new_as_prover() or Validator::new_as_verifier() *)
NewValidator ==
    /\ pc = "validating"
    /\ result = None
    /\ \E as_prover \in BOOLEAN : result' = Some(Validator_new(as_prover))
    /\ UNCHANGED <<evaluator, backend, pc, violations, ops, trace, nmsgs, arg>>

ValidatorIngest(msg) ==
    /\ pc = "validating"
    /\ result # None
    /\ nmsgs < MaxMessages
    /\ \E r \in {CASE msg.type = "Instance" -> Validator_ingest_instance(result[1], msg)
                   [] msg.type = "Witness" -> Validator_ingest_witness(result[1], msg)
                   [] msg.type = "Relation" -> Validator_ingest_relation(result[1], msg)} :
          /\ result' = Some(r)
          /\ pc' = IF IsOk(r) THEN "validating" ELSE "aborted"
    /\ nmsgs' = nmsgs + 1
    /\ arg' = Some(Append(arg[1], msg))
    /\ UNCHANGED <<evaluator, backend, violations, ops, trace>>

ValidatorGetViolations ==
    /\ pc = "validating"
    /\ result # None
    /\ \E order \in Orders(Unsettled(result[1])) :
          violations' = Some(Validator_get_violations(result[1], order))
    /\ pc' = "validated"
    /\ UNCHANGED <<evaluator, backend, ops, trace, nmsgs, arg, result>>

NextValidator ==
    \/ NewValidator
    \/ \E i \in 1..Len(ValidatorMessages) : ValidatorIngest(ValidatorMessages[i])
    \/ ValidatorGetViolations

SpecValidator == InitValidator /\ [][NextValidator]_vars

(* The values a message makes the validator check, each with the name the  *)
(* validator gives it.                                                     *)
CheckedValues(msg) ==
    CASE msg.type = "Instance" ->
            {<<"value of the instance variable_" \o ToString(msg.common_inputs[i].id),
               msg.common_inputs[i].value>> : i \in 1..Len(msg.common_inputs)}
      [] msg.type = "Witness" ->
            {<<"value of the witness variable_" \o ToString(msg.short_witness[i].id),
               msg.short_witness[i].value>> : i \in 1..Len(msg.short_witness)}
      [] msg.type = "Relation" ->
            {<<IF msg.gates[i].k = "Constant" THEN "Gate::Constant constant"
               ELSE "Gate::" \o msg.gates[i].k \o "_" \o ToString(msg.gates[i].out),
               msg.gates[i].value>> :
                i \in {j \in 1..Len(msg.gates) :
                          msg.gates[j].k \in {"Constant", "AddConstant", "MulConstant"}}}

Recorded(v, text) == \E j \in 1..Len(v.violations) : v.violations[j] = text

(* C27: the validator records a violation for every instance value,        *)
(* witness value and gate constant whose integer value is not strictly     *)
(* less than the field characteristic, the characteristic included.        *)
C27_ValueInField ==
    (result # None /\ pc \in {"validating", "validated"}) =>
        \A m \in 1..Len(arg[1]) : \A c \in CheckedValues(arg[1][m]) :
            ( /\ result[1].field_degree = 1
              /\ Len(c[2]) = result[1].field_bytelen
              /\ FromBytesLE(c[2]) >= result[1].field_characteristic )
            => Recorded(result[1],
                        CannotRepresent(c[1], FromBytesLE(c[2]),
                                        result[1].field_characteristic))

(* What a message does to the status of variables, in order: an Instance   *)
(* or Witness assignment, a gate reading a wire, a gate writing its output. *)
Touch(kind, id) == [kind |-> kind, id |-> id]

GateTouches(gate) ==
    CASE gate.k = "Constant" -> <<Touch("write", gate.out)>>
      [] gate.k = "AssertZero" -> <<Touch("read", gate.inp)>>
      [] gate.k \in {"Copy", "Not", "AddConstant", "MulConstant"} ->
            <<Touch("read", gate.inp), Touch("write", gate.out)>>
      [] gate.k \in {"Add", "Mul", "And", "Xor"} ->
            <<Touch("read", gate.left), Touch("read", gate.right),
              Touch("write", gate.out)>>

RECURSIVE GatesTouches(_)
GatesTouches(gates) ==
    IF gates = <<>> THEN <<>>
    ELSE GateTouches(Head(gates)) \o GatesTouches(Tail(gates))

MessageTouches(msg) ==
    CASE msg.type = "Instance" ->
            [i \in 1..Len(msg.common_inputs) |-> Touch("instance", msg.common_inputs[i].id)]
      [] msg.type = "Witness" ->
            [i \in 1..Len(msg.short_witness) |-> Touch("witness", msg.short_witness[i].id)]
      [] msg.type = "Relation" -> GatesTouches(msg.gates)

RECURSIVE Touches(_)
Touches(msgs) ==
    IF msgs = <<>> THEN <<>> ELSE MessageTouches(Head(msgs)) \o Touches(Tail(msgs))

Touched == {Touches(arg[1])[i].id : i \in 1..Len(Touches(arg[1]))}

TouchedAs(id, kinds) ==
    \E i \in 1..Len(Touches(arg[1])) :
        Touches(arg[1])[i].id = id /\ Touches(arg[1])[i].kind \in kinds

FirstTouchIsRead(id) ==
    \E i \in 1..Len(Touches(arg[1])) :
        /\ Touches(arg[1])[i] = Touch("read", id)
        /\ \A j \in 1..(i - 1) : Touches(arg[1])[j].id # id

LastTouchIsWitness(id) ==
    \E i \in 1..Len(Touches(arg[1])) :
        /\ Touches(arg[1])[i] = Touch("witness", id)
        /\ \A j \in (i + 1)..Len(Touches(arg[1])) : Touches(arg[1])[j].id # id

Reports(text) == \E j \in 1..Len(violations[1]) : violations[1][j] = text

(* C28 as stated: in either role get_violations reports every wire a gate  *)
(* read that was never defined, and every wire an Instance or Witness      *)
(* message defined that no gate used.                                      *)
C28_WireStatusReported ==
    pc = "validated" =>
        \A id \in Touched :
            /\ (TouchedAs(id, {"read"}) /\ ~TouchedAs(id, {"instance", "witness", "write"}))
                  => (Reports(AccessedNotDefined(id)) \/ Reports(UsedUnassigned(id)))
            /\ (TouchedAs(id, {"instance", "witness"}) /\ ~TouchedAs(id, {"read", "write"}))
                  => Reports(DefinedNotUsed(id))

(* C28 amended: a gate reading a wire that nothing gave a status before    *)
(* is reported, as "used but was not assigned a value", by a prover and    *)
(* not at all by a verifier; get_violations adds "defined but not used"    *)
(* exactly for the wires whose last status change is a Witness definition, *)
(* never for an instance wire, and never adds "accessed but not defined".  *)
C28_WireStatus ==
    pc = "validated" =>
        \A id \in Touched :
            /\ Reports(UsedUnassigned(id))
                  <=> (result[1].as_prover /\ FirstTouchIsRead(id))
            /\ Reports(DefinedNotUsed(id)) <=> LastTouchIsWitness(id)
            /\ ~Reports(AccessedNotDefined(id))

(* A verifier is given an instance wire no gate uses and a gate reading a  *)
(* wire nothing defined, and reports nothing.                              *)
C28_Witness ==
    /\ pc = "validated"
    /\ ~result[1].as_prover
    /\ Len(arg[1]) = 2
    /\ arg[1][1] = InstanceMsg(H(3), <<Assignment(0, <<1>>)>>)
    /\ arg[1][2].type = "Relation" /\ arg[1][2].gates = <<Copy(4, 2)>>
    /\ violations = Some(<<>>)

-----------------------------------------------------------------------------
(* The backend operations of the flattener that create a gate (copy to     *)
(* witness), each with the gate it creates; set_field, one, minus_one and  *)
(* zero create none.                                                       *)
GateOfOperation ==
    [copy |-> "Copy", constant |-> "Constant", assert_zero |-> "AssertZero",
     add |-> "Add", multiply |-> "Mul", add_constant |-> "AddConstant",
     mul_constant |-> "MulConstant", and |-> "And", xor |-> "Xor",
     not |-> "Not", instance |-> "Instance", witness |-> "Witness"]

IsGateOperation(op) == op \in DOMAIN GateOfOperation

WithOutput(gates) == SelectSeq(gates, has_output)

(* C29: each gate operation of the flattening backend (copy, constant,     *)
(* assert_zero, add, multiply, add_constant, mul_constant, and, xor, not,  *)
(* instance, witness) emits exactly one primitive gate, of its own kind;   *)
(* the identifiers returned by value-producing operations are all          *)
(* different; assert_zero emits an AssertZero gate and succeeds whatever   *)
(* the wire, so an evaluator driving the flattener never records an        *)
(* assertion failure.                                                      *)
C29_OneGatePerOperation ==
    backend.b # None =>
        /\ Len(backend.b[1].gates) = Len(SelectSeq(ops, IsGateOperation))
        /\ \A i \in 1..Len(backend.b[1].gates) :
              backend.b[1].gates[i].k
                 = GateOfOperation[SelectSeq(ops, IsGateOperation)[i]]
        /\ \A i \in 1..Len(WithOutput(backend.b[1].gates)) :
              WithOutput(backend.b[1].gates)[i].out = i - 1
        /\ backend.b[1].next_available_id = Len(WithOutput(backend.b[1].gates))
        /\ \A id \in 0..MaxWire :
              found_error # Some("Wire_" \o ToString(id)
                                 \o " (may be weighted) should be 0, while it is not")

(* A witness that does not satisfy the relation: the flattener accepted    *)
(* it and emitted the assertion, which fails on the plaintext backend.     *)
C29_Witness ==
    /\ Flattened
    /\ AssertionFailure(result[1].orig)
    /\ witness_queue = <<>>
    /\ Len(arg[1][2].short_witness) = 1
    /\ \E i \in 1..Len(backend.b[1].gates) : backend.b[1].gates[i].k = "AssertZero"
    /\ \E i \in 1..Len(backend.b[1].gates) : backend.b[1].gates[i].k = "Witness"
    /\ \E i \in 1..Len(ops) : ops[i] = "assert_zero"

-----------------------------------------------------------------------------
(* The end of a flattener.  An ending is the flattener that is left, what  *)
(* its sink holds and how many times a builder was finished.               *)

(* impl Drop for IRFlattener *)
IRFlattener_drop(e) ==
    IF e.backend.b # None
    THEN [backend |-> [e.backend EXCEPT !.b = None],
          sink |-> Some(IRFlattener_finish(e.backend)),
          finished |-> e.finished + 1]
    ELSE e

(* self.b.take().unwrap().finish(), then self goes out of scope *)
IRFlattener_finish_self(be) ==
    IRFlattener_drop([backend |-> [be EXCEPT !.b = None],
                      sink |-> Some(IRFlattener_finish(be)),
                      finished |-> 1])

(* Specification SpecFlatEnd: an evaluator drives one flattener over up to *)
(* MaxMessages messages whose headers and gate sets differ, and the        *)
(* flattener ends by finish() or by being dropped.                         *)
FlatStream ==
    << RelationMsg(H(3), FALSE, <<>>, <<Constant(0, <<1>>)>>),
       RelationMsg(H(2), TRUE, <<>>, <<Constant(1, <<1>>), Not(2, 1)>>),
       RelationMsg(Header(<<5>>, 2), FALSE, <<>>, <<>>),
       RelationMsg(H(5), FALSE, <<>>, <<Constant(3, <<4>>), MulConstant(4, 3, <<2>>)>>),
       RelationMsg(H(0), FALSE, <<>>, <<Constant(5, <<0>>)>>),
       InstanceMsg(H(3), << <<1>> >>) >>

(* flattener.finish(): unwrap panics when no builder was ever built. *)
FinishFlattener ==
    /\ pc = "running"
    /\ IF backend.b = None
       THEN pc' = "aborted" /\ UNCHANGED <<result, backend>>
       ELSE /\ result' = Some(IRFlattener_finish_self(backend))
            /\ backend' = result'[1].backend
            /\ pc' = "finished"
    /\ UNCHANGED <<evaluator, violations, ops, trace, nmsgs, arg>>

(* the flattener goes out of scope without finish() *)
DropFlattener ==
    /\ pc = "running"
    /\ result' = Some(IRFlattener_drop([backend |-> backend, sink |-> None,
                                        finished |-> 0]))
    /\ backend' = result'[1].backend
    /\ pc' = "dropped"
    /\ UNCHANGED <<evaluator, violations, ops, trace, nmsgs, arg>>

NextFlatEnd ==
    \/ \E i \in 1..Len(FlatStream) :
          nmsgs < MaxMessages /\ IngestMessage(FlatStream[i])
    \/ FinishFlattener
    \/ DropFlattener

SpecFlatEnd == InitFlat /\ [][NextFlatEnd]_vars

IsPrefix(a, b) == Len(a) <= Len(b) /\ SubSeq(b, 1, Len(a)) = a

(* C30: the flattener builds its gate builder, with the output header,     *)
(* on the first set_field call only.  A later set_field call, whatever its *)
(* modulus, degree or boolean flag, leaves the builder, its header and the *)
(* recorded modulus as they are: the gates of the relation are appended to *)
(* the same builder.  However the flattener ends, by finish() or by being  *)
(* dropped, a builder is finished at most once.                            *)
C30_BuilderBuiltOnce ==
    [][ /\ (Ingests("Relation") /\ backend.b = None) =>
              /\ backend'.b # None
              /\ backend'.b[1].header = Ingested.header
              /\ backend'.b[1].bool = Ingested.bool
              /\ backend'.modulus = FromBytesLE(Ingested.header.field_characteristic)
        /\ (Ingests("Relation") /\ backend.b # None) =>
              /\ backend'.b # None
              /\ backend'.b[1].header = backend.b[1].header
              /\ backend'.b[1].bool = backend.b[1].bool
              /\ backend'.modulus = backend.modulus
              /\ IsPrefix(backend.b[1].gates, backend'.b[1].gates)
              /\ Ingested.gates = <<>> => backend' = backend
        /\ (result' # None /\ result = None) =>
              /\ result'[1].finished = (IF backend.b # None THEN 1 ELSE 0)
              /\ result'[1].backend.b = None
              /\ backend.b # None =>
                    result'[1].sink = Some(finish(backend.b[1]))
              /\ IRFlattener_drop(result'[1]) = result'[1]
      ]_vars

(* Two relations in different fields, the second boolean, were flattened   *)
(* into one builder under the first header, and finish() ended it once.    *)
C30_Witness ==
    /\ pc = "finished"
    /\ found_error = None
    /\ Len(arg[1]) = 2
    /\ arg[1][1].header = H(3) /\ ~arg[1][1].bool
    /\ arg[1][2].header = H(2) /\ arg[1][2].bool
    /\ result[1].finished = 1
    /\ result[1].sink[1][3].header = H(3)
    /\ ~result[1].sink[1][3].bool
    /\ Len(result[1].sink[1][3].gates) = 3

-----------------------------------------------------------------------------
(* C31: the flattening backend's set_field fails when the modulus is zero  *)
(* or the degree is not 1: a Relation message with such a header, given to *)
(* an evaluator that drives the flattener, leaves an error recorded.       *)
C31_FlattenerRejectsBadField ==
    \A i \in 1..Len(arg[1]) :
        (arg[1][i].type = "Relation" /\ BadField(arg[1][i].header))
            => found_error # None

-----------------------------------------------------------------------------
(* The branch of Switch i that gate g runs in, by the event that starts    *)
(* its body, and whether Switch i is the innermost Switch around g.        *)
BranchOf(i, g) ==
    CHOOSE e \in DirectEnters(i) :
        e < g /\ \A e2 \in DirectEnters(i) : e2 < g => e2 <= e

InnermostSwitch(i, g) ==
    /\ trace[i].k = "Switch"
    /\ g \in Inside(i)
    /\ ~\E i2 \in Gates :
          i < i2 /\ i2 < g /\ trace[i2].k = "Switch" /\ g \in Inside(i2)

(* The Instance gates of the branch of Switch i started at e, the gates in *)
(* the branches of a Switch nested in it left out.                         *)
BranchInstances(i, e) ==
    {g \in Gates :
        trace[g].k = "Instance" /\ InnermostSwitch(i, g) /\ BranchOf(i, g) = e}

(* C32 -- reservation truncation: a Switch that finds fewer values in the  *)
(* instance pool than its branches declare hands every branch all the      *)
(* values there are.  In a branch, counting the gates outside the branches *)
(* of a nested Switch, at most as many Instance gates succeed as values    *)
(* were reserved; an Instance gate after that many, or on an empty pool,   *)
(* fails with Not enough instance to consume and ends the evaluation,      *)
(* whatever the pool of the caller still holds.                            *)
C32_ReservationTruncation ==
    \A i \in Gates :
        (trace[i].k = "Switch" /\ NamesKnown(trace[i].f.gate)) =>
            /\ Len(PoolAt(i, 1)) < MaxDeclared(trace[i].f.gate, 1) =>
                  \A j \in BranchStarts(i) : PoolAt(j, 1) = PoolAt(i, 1)
            /\ \A e \in DirectEnters(i) :
                  /\ Cardinality({g \in BranchInstances(i, e) : Succeeded(g)})
                        <= ReservedCount(i, 1)
                  /\ \A g \in BranchInstances(i, e) :
                        ( \/ PoolAt(g, 1) = <<>>
                          \/ Cardinality({g2 \in BranchInstances(i, e) : g2 < g})
                                >= ReservedCount(i, 1) )
                        => /\ ~Succeeded(g)
                           /\ found_error = NotEnoughInstance
                           /\ \A g2 \in Gates : g2 <= g

(* A Switch whose branch declares two instance values finds one: the first *)
(* Instance gate of the branch succeeds, the second fails.                 *)
C32_Witness ==
    /\ found_error = NotEnoughInstance
    /\ \E i \in Gates :
          /\ trace[i].k = "Switch"
          /\ Len(PoolAt(i, 1)) = 1
          /\ MaxDeclared(trace[i].f.gate, 1) = 2
          /\ \E e \in DirectEnters(i) :
                /\ Cardinality(BranchInstances(i, e)) = 2
                /\ Cardinality({g \in BranchInstances(i, e) : Succeeded(g)}) = 1

-----------------------------------------------------------------------------
(* C33: the validator is cumulative and never aborts: a value whose byte   *)
(* length differs from field_bytelen x field_degree, be it shorter, longer *)
(* or empty, adds a violation and validation goes on; every message given  *)
(* to the validator is ingested to its end with the violation recorded.    *)
C33_ValidatorNeverAborts ==
    result # None =>
        \A m \in 1..Len(arg[1]) : \A c \in CheckedValues(arg[1][m]) :
            Len(c[2]) # result[1].field_bytelen * result[1].field_degree
                => /\ pc # "aborted"
                   /\ IsOk(result[1])
                   /\ result[1].violations # <<>>

-----------------------------------------------------------------------------
ValueGates ==
    {"Constant", "Copy", "Add", "Mul", "AddConstant", "MulConstant", "And",
     "Xor", "Not", "Instance", "Witness"}

(* C34: a gate that fails because its output identifier is already bound   *)
(* leaves the binding as it was: after the failed top-level gate, the      *)
(* evaluator holds for the identifier the value it held before the gate.   *)
C34_FailedBindKeepsValue ==
    \A i \in TopGates :
        ( /\ trace[i].k \in ValueGates
          /\ \A j \in Gates : j <= i
          /\ trace[i].id \in DOMAIN trace[i].f.scope
          /\ found_error = DuplicateMessage(trace[i].id) )
        => /\ trace[i].id \in DOMAIN values
           /\ values[trace[i].id] = trace[i].f.scope[trace[i].id]

-----------------------------------------------------------------------------
FreeRangeOf(gate) ==
    gate.first..(IF gate.last = None THEN gate.first ELSE gate.last[1])

(* C35: a Free(first, last) that fails because an identifier of the range  *)
(* is unbound removes nothing: every identifier of the range bound before  *)
(* the failed top-level gate is bound after it.                            *)
C35_FailedFreeRemovesNothing ==
    \A i \in TopGates :
        ( /\ trace[i].k = "Free"
          /\ \A j \in Gates : j <= i
          /\ ~Succeeded(i)
          /\ \E id \in FreeRangeOf(trace[i].f.gate) : found_error = UnboundMessage(id) )
        => \A id \in FreeRangeOf(trace[i].f.gate) \cap DOMAIN trace[i].f.scope :
              id \in DOMAIN values

-----------------------------------------------------------------------------
(* C36: a For gate leaves the iterator environment as it found it: after   *)
(* a loop that completes, every iterator name is bound as it was before    *)
(* the For gate, also when an enclosing For had bound the same name.       *)
C36_ForRestoresIterators ==
    \A i \in Gates :
        (trace[i].k = "For" /\ Succeeded(i)) =>
            DoneOf(i).known_iterators = trace[i].f.known_iterators

-----------------------------------------------------------------------------
(* C37: under the plaintext backend with modulus p every wire value bound  *)
(* in a scope is below p, the wires of Constant, Instance and Witness      *)
(* included, and an AssertZero outside every Switch branch on a wire whose *)
(* value is congruent to 0 modulo p passes.                                *)
C37_WiresInField ==
    modulus > 0 =>
        /\ \A id \in DOMAIN values : values[id] < modulus
        /\ \A i \in 1..Len(trace) :
              /\ trace[i].e \in {"gate", "done"} =>
                    \A id \in DOMAIN trace[i].f.scope :
                        trace[i].f.scope[id] < modulus
              /\ ( /\ trace[i].e = "assert"
                   /\ trace[i].f.weight = None
                   /\ trace[i].f.wire % modulus = 0 )
                 => ~trace[i].f.is_err

-----------------------------------------------------------------------------
(* Specification SpecField: compute_weight, the branch weight of a Switch, *)
(* on the plaintext backend in every field of characteristic 1 to MaxPrime *)
(* and degree 1, the fields that set_field accepts.                        *)
InitField ==
    /\ InitWith(PlaintextBackend)
    /\ pc = "weight"
    /\ \E p \in 1..MaxPrime, c \in 0..(MaxPrime - 1), v \in 0..(MaxPrime - 1) :
          /\ c < p /\ v < p
          /\ arg = Some([modulus |-> p, is_boolean |-> FALSE,
                         case |-> <<c>>, condition |-> v])

SpecField == InitField /\ [][NextWeight]_vars

(* C38: in every field that the plaintext backend's set_field accepts, a   *)
(* field of characteristic 1 included, the branch weight of a Switch is    *)
(* computed: the exponentiation with exponent modulus - 1 returns.         *)
C38_WeightReturns ==
    pc = "weighted" =>
        /\ FieldSet(PlaintextBackend, arg[1].modulus, arg[1].is_boolean).status = "ok"
        /\ result[1].status \in {"ok", "err"}

-----------------------------------------------------------------------------
(* Specification SpecRecursion: relations whose function table holds a     *)
(* function that calls itself ("rec"), two functions that call each other  *)
(* ("ping", "pong"), a function that consumes an instance value and then   *)
(* calls itself ("count"), and a function without a Call ("mul").          *)

RecFunctions ==
    << Function("rec", 1, 1, 0, 0, <<Call("rec", <<W(0)>>, <<W(1)>>)>>),
       Function("ping", 1, 1, 0, 0, <<Call("pong", <<W(0)>>, <<W(1)>>)>>),
       Function("pong", 1, 1, 0, 0, <<Call("ping", <<W(0)>>, <<W(1)>>)>>),
       Function("count", 1, 0, 1, 0,
                <<Instance(1), Call("count", <<W(0)>>, <<>>)>>),
       F_mul >>

RecCircuits ==
    << <<Instance(0), Call("rec", <<W(1)>>, <<W(0)>>)>>,
       <<Instance(0), Call("ping", <<W(1)>>, <<W(0)>>)>>,
       <<Call("count", <<W(0)>>, <<>>)>>,
       <<Instance(0), Call("mul", <<W(1)>>, <<W(0), W(0)>>)>> >>

InitRecursion == InitWith(PlaintextBackend) /\ pc = "running" /\ arg = Some(<<>>)

NextRecursion ==
    \/ \E inst \in Pools(2) :
          nmsgs < 2 /\ IngestMessage(InstanceMsg(H(3), Bytes(inst)))
    \/ \E wit \in Pools(1) :
          nmsgs < 2 /\ IngestMessage(WitnessMsg(H(3), Bytes(wit)))
    \/ \E i \in 1..Len(RecCircuits) :
          /\ nmsgs = 2
          /\ IngestMessage(RelationMsg(H(3), FALSE, RecFunctions, RecCircuits[i]))
    \/ nmsgs = 3 /\ GetViolations

SpecRecursion == InitRecursion /\ [][NextRecursion]_vars

(* C39: ingesting a Relation message returns, with success or with an     *)
(* error, whatever its gates and its function table are, functions that   *)
(* call themselves or each other included.                                *)
C39_RelationReturns ==
    [][Ingests("Relation") =>
          ingest_message(Ev, backend, Ingested).status \in {"ok", "err"}]_vars

=============================================================================
